---- MODULE Spec2Model ----
(***************************************************************************)
(* Candidate-footprint extraction engine: text normalizers, resume line    *)
(* scans, resume pipeline, portfolio structurer and cross-reference        *)
(* reconciler.                                                             *)
(*                                                                         *)
(* Conventions.  A Python str is a sequence of one-character strings, so   *)
(* "" and [] are both <<>>.  An Optional value is None (<<>>) or Some(v)   *)
(* (<<v>>); a value that Python never sets to None is kept bare.           *)
(* The sections on optional values, characters and strings, and the        *)
(* position helpers of the pattern library (SkipSet, WordBoundary, Least,  *)
(* ...) give the meaning of Python's built-ins (str methods, the re        *)
(* constructs, sorted); every other section translates code of the         *)
(* repository.                                                             *)
(***************************************************************************)
EXTENDS Integers, Sequences, FiniteSets, TLC

VARIABLES
    pc,       \* position of the running call
    fn,       \* entry point under execution
    arg,      \* its argument(s)
    ret,      \* its return value (None until it returns)
    locals,   \* local variables of the running call
    clock,    \* what datetime.now() reads
    files,    \* JSON snapshots written to disk, by file name
    history   \* results of the calls completed before the running one

vars == <<pc, fn, arg, ret, locals, clock, files, history>>
\* the part of the state a pure function neither reads nor writes
world == <<locals, clock, files, history>>
WorldIdle == locals = <<>> /\ clock = 0 /\ files = <<>> /\ history = <<>>

----------------------------------------------------------------------------
(* Optional values and Python truthiness *)

None == <<>>
Some(v) == <<v>>
IsNone(o) == Len(o) = 0
IsSome(o) == Len(o) = 1
\* `if x:` for an Optional[str] or Optional[list]
Truthy(o) == IsSome(o) /\ Len(o[1]) > 0

----------------------------------------------------------------------------
(* Characters *)

UpperSeq == <<"A","B","C","D","E","F","G","H","I","J","K","L","M",
              "N","O","P","Q","R","S","T","U","V","W","X","Y","Z">>
LowerSeq == <<"a","b","c","d","e","f","g","h","i","j","k","l","m",
              "n","o","p","q","r","s","t","u","v","w","x","y","z">>
Digits == {"0","1","2","3","4","5","6","7","8","9"}
Letters == {UpperSeq[i] : i \in 1..26} \cup {LowerSeq[i] : i \in 1..26}

\* the non-ASCII characters U+2013, U+2022 and U+00B7, each one character
EnDash == "<U+2013>"
Bullet == "<U+2022>"
MidDot == "<U+00B7>"

\* regex \s and str.split()/str.strip() whitespace
IsWS(c) == c \in {" ", "\t", "\n", "\r"}
\* regex \w
IsWordChar(c) == c \in Letters \/ c \in Digits \/ c = "_"

LowerChar(c) ==
    IF \E i \in 1..26 : UpperSeq[i] = c
    THEN LowerSeq[CHOOSE i \in 1..26 : UpperSeq[i] = c]
    ELSE c
\* str.lower()
Lower(s) == [i \in 1..Len(s) |-> LowerChar(s[i])]

----------------------------------------------------------------------------
(* Strings *)

IsSubstringAt(p, s, i) ==
    /\ i >= 1
    /\ i + Len(p) - 1 <= Len(s)
    /\ \A k \in 1..Len(p) : s[i + k - 1] = p[k]
\* `p in s`
Contains(s, p) == \E i \in 1..(Len(s) - Len(p) + 1) : IsSubstringAt(p, s, i)
ContainsAny(s, ps) == \E p \in ps : Contains(s, p)
StartsWith(s, p) == IsSubstringAt(p, s, 1)
EndsWith(s, p) == IsSubstringAt(p, s, Len(s) - Len(p) + 1)

\* str.strip(), str.lstrip(chars)
RECURSIVE LStripSet(_, _)
LStripSet(s, cs) ==
    IF Len(s) > 0 /\ s[1] \in cs THEN LStripSet(Tail(s), cs) ELSE s
RECURSIVE RStripWS(_)
RStripWS(s) ==
    IF Len(s) > 0 /\ IsWS(s[Len(s)]) THEN RStripWS(SubSeq(s, 1, Len(s) - 1)) ELSE s
Strip(s) == RStripWS(LStripSet(s, {" ", "\t", "\n", "\r"}))

\* str.split(sep) for a non-empty separator string
RECURSIVE SplitOn(_, _)
SplitOn(s, sep) ==
    IF Contains(s, sep)
    THEN LET i == CHOOSE i \in 1..Len(s) :
                     IsSubstringAt(sep, s, i) /\ \A j \in 1..(i - 1) : ~IsSubstringAt(sep, s, j)
         IN  <<SubSeq(s, 1, i - 1)>> \o SplitOn(SubSeq(s, i + Len(sep), Len(s)), sep)
    ELSE <<s>>

\* str.split(): the maximal runs of non-whitespace characters
RECURSIVE SplitWS(_)
SplitWS(s) ==
    LET t == LStripSet(s, {" ", "\t", "\n", "\r"}) IN
    IF Len(t) = 0 THEN <<>>
    ELSE LET n == IF \E i \in 1..Len(t) : IsWS(t[i])
                  THEN (CHOOSE i \in 1..Len(t) :
                            IsWS(t[i]) /\ \A j \in 1..(i - 1) : ~IsWS(t[j])) - 1
                  ELSE Len(t)
         IN  <<SubSeq(t, 1, n)>> \o SplitWS(SubSeq(t, n + 1, Len(t)))

\* sep.join(parts)
RECURSIVE Join(_, _)
Join(parts, sep) ==
    IF Len(parts) = 0 THEN <<>>
    ELSE IF Len(parts) = 1 THEN parts[1]
    ELSE parts[1] \o sep \o Join(Tail(parts), sep)

\* re.sub(r'\s+', ' ', text)
RECURSIVE CollapseFrom(_, _)
CollapseFrom(s, i) ==
    IF i > Len(s) THEN <<>>
    ELSE IF IsWS(s[i])
         THEN (IF i > 1 /\ IsWS(s[i - 1]) THEN <<>> ELSE <<" ">>) \o CollapseFrom(s, i + 1)
         ELSE <<s[i]>> \o CollapseFrom(s, i + 1)
CollapseWS(s) == CollapseFrom(s, 1)

\* the characters re.sub(r'[^\w\s\-\.@]', '', text) keeps
IsKeptChar(c) == IsWordChar(c) \/ IsWS(c) \/ c \in {"-", ".", "@"}

----------------------------------------------------------------------------
(* Text normalizers *)

\* portfolio_scraper.clean_text
clean_text(text) ==
    IF IsNone(text) \/ Len(text[1]) = 0 THEN None
    ELSE Some(Join(SplitWS(text[1]), <<" ">>))

\* resume_parser.clean_text
resume_clean_text(text) ==
    Strip(SelectSeq(CollapseWS(text), IsKeptChar))

----------------------------------------------------------------------------
(* HTML field extractor: extract_list_from_tags.  The parsed tree is seen   *)
(* through soup.select: for each selector, the elements it matches, in      *)
(* document order.  An element is [name, text, alt, title, href].           *)

ListExcludeKeywords == {
    <<"p","r","o","j","e","c","t","s">>,
    <<"s","k","i","l","l","s">>,
    <<"e","x","p","e","r","i","e","n","c","e">>,
    <<"e","d","u","c","a","t","i","o","n">>,
    <<"c","o","n","t","a","c","t">>,
    <<"r","e","s","u","m","e">>,
    <<"c","e","r","t","i","f","i","c","a","t","e","s">>,
    <<"t","e","r","m","s">>,
    <<"c","o","n","d","i","t","i","o","n","s">>,
    <<"i","c","o","n">>,
    <<"h","a","c","k","a","t","h","o","n","s">>,
    <<"i","n","t","e","r","n","s","h","i","p","s">> }

\* a or b
OrElse(a, b) == IF Truthy(a) THEN a ELSE b

\* lines 198-202: the cleaned text of one element
ListElemText(elem) ==
    IF elem.name = "img" THEN clean_text(elem.alt)
    ELSE clean_text(OrElse(Some(elem.text), OrElse(elem.alt, elem.title)))

HasListExcludeKeyword(s) == \E kw \in ListExcludeKeywords : Contains(Lower(s), Lower(kw))

\* line 207: the cleaned items of a separator-split text
RECURSIVE SplitItems(_)
SplitItems(pieces) ==
    IF Len(pieces) = 0 THEN <<>>
    ELSE (IF Truthy(clean_text(Some(pieces[1]))) /\ ~HasListExcludeKeyword(pieces[1])
          THEN <<clean_text(Some(pieces[1]))[1]>> ELSE <<>>)
         \o SplitItems(Tail(pieces))

InSeq(x, seq) == \E i \in 1..Len(seq) : seq[i] = x

\* lines 197-209: the body of the loop for one element
ListVisit(items, elem, separator) ==
    LET text == ListElemText(elem) IN
    IF ~Truthy(text) \/ HasListExcludeKeyword(text[1]) THEN items
    ELSE IF Contains(text[1], separator)
         THEN items \o SplitItems(SplitOn(text[1], separator))
         ELSE IF Len(SplitWS(text[1])) <= 5 /\ ~InSeq(text[1], items)
              THEN Append(items, text[1])
              ELSE items

\* for elem in elements
RECURSIVE ListVisitAll(_, _, _)
ListVisitAll(items, elements, separator) ==
    IF Len(elements) = 0 THEN items
    ELSE ListVisitAll(ListVisit(items, elements[1], separator), Tail(elements), separator)

\* for selector in selectors
RECURSIVE ListSelectAll(_, _, _)
ListSelectAll(items, selected, separator) ==
    IF Len(selected) = 0 THEN items
    ELSE ListSelectAll(ListVisitAll(items, selected[1], separator), Tail(selected), separator)

\* mutant: the final de-duplication is dropped
Mutant_DictFromKeys(seq) == seq

\* list(dict.fromkeys(seq)): first occurrences, in order
RECURSIVE DictFromKeys(_)
DictFromKeys(seq) ==
    IF Len(seq) = 0 THEN <<>>
    ELSE LET front == DictFromKeys(SubSeq(seq, 1, Len(seq) - 1)) IN
         IF InSeq(seq[Len(seq)], front) THEN front ELSE Append(front, seq[Len(seq)])

NonEmpty(item) == Len(item) > 0

extract_list_from_tags(selected, separator) ==
    DictFromKeys(SelectSeq(ListSelectAll(<<>>, selected, separator), NonEmpty))

----------------------------------------------------------------------------
(* HTML field extractor: texts and links *)

\* str.replace(old, new), old non-empty
RECURSIVE ReplaceAll(_, _, _)
ReplaceAll(s, old, new) ==
    IF Len(s) = 0 THEN <<>>
    ELSE IF IsSubstringAt(old, s, 1)
         THEN new \o ReplaceAll(SubSeq(s, Len(old) + 1, Len(s)), old, new)
         ELSE <<s[1]>> \o ReplaceAll(Tail(s), old, new)

\* s[:n]
Truncate(s, n) == SubSeq(s, 1, IF Len(s) < n THEN Len(s) ELSE n)

DefaultExcludeKeywords ==
    {<<"c","o","p","y","r","i","g","h","t">>,
     <<"p","r","i","v","a","c","y">>,
     <<"t","e","r","m","s">>,
     <<"c","o","o","k","i","e">>,
     <<"a","l","l"," ","r","i","g","h","t","s">>,
     <<"r","e","s","p","o","n","s","i","b","i","l","i","t","i","e","s">>,
     <<"e","x","p","e","r","i","e","n","c","e">>,
     <<"p","r","o","j","e","c","t","s">>,
     <<"s","k","i","l","l","s">>,
     <<"e","d","u","c","a","t","i","o","n">>,
     <<"c","o","n","t","a","c","t">>}

\* the condition of lines 165 and 173 on one tag's text
TagTextKept(raw, max_length, keywords, exclude_keywords) ==
    LET text == clean_text(Some(raw)) IN
    /\ Truthy(text)
    /\ Len(text[1]) <= max_length
    /\ keywords = {} \/ \E kw \in keywords : Contains(Lower(text[1]), Lower(kw))
    /\ ~\E ex \in exclude_keywords : Contains(Lower(text[1]), Lower(ex))

RECURSIVE KeptTexts(_, _, _, _)
KeptTexts(raws, max_length, keywords, exclude_keywords) ==
    IF Len(raws) = 0 THEN <<>>
    ELSE (IF TagTextKept(raws[1], max_length, keywords, exclude_keywords)
          THEN <<clean_text(Some(raws[1]))[1]>> ELSE <<>>)
         \o KeptTexts(Tail(raws), max_length, keywords, exclude_keywords)

\* tags: get_text() of the tags the selectors match, selector by selector;
\* fallback: get_text() of the tags found by fallback tag name (<<>> if none given)
extract_text_from_tags(tags, max_length, fallback, keywords, exclude_keywords) ==
    LET selected == KeptTexts(tags, max_length, keywords, exclude_keywords)
        extracted == IF Len(selected) = 0 /\ Len(fallback) > 0
                     THEN KeptTexts(fallback, max_length, keywords, exclude_keywords)
                     ELSE selected
    IN  IF Len(extracted) > 0
        THEN Some(Truncate(Join(DictFromKeys(extracted), <<" ">>), max_length))
        ELSE None

\* entry.select_one(selector): entry.first maps a selector to the text of its first match
SelectOne(entry, selector) ==
    IF selector \in DOMAIN entry.first THEN Some(entry.first[selector]) ELSE None

RECURSIVE extract_single_text(_, _, _)
extract_single_text(entry, selectors, max_length) ==
    IF Len(selectors) = 0 THEN None
    ELSE LET text == clean_text(SelectOne(entry, selectors[1])) IN
         IF IsSome(SelectOne(entry, selectors[1])) /\ Truthy(text) /\ Len(text[1]) <= max_length
         THEN text
         ELSE extract_single_text(entry, Tail(selectors), max_length)

\* urllib.parse.urljoin for an absolute href, or a relative path against a base ending in "/"
urljoin(base_url, href) ==
    IF Contains(href, <<":","/","/">>) THEN href ELSE base_url \o href

\* entry.href maps a selector to the href of its first match, when it has one
RECURSIVE extract_link_from_tags(_, _, _)
extract_link_from_tags(entry, selectors, base_url) ==
    IF Len(selectors) = 0 THEN None
    ELSE IF selectors[1] \in DOMAIN entry.href /\ Len(entry.href[selectors[1]]) > 0
         THEN LET href == entry.href[selectors[1]] IN
              IF StartsWith(href, <<"m","a","i","l","t","o",":">>)
              THEN Some(ReplaceAll(href, <<"m","a","i","l","t","o",":">>, <<>>))
              ELSE Some(urljoin(base_url, href))
         ELSE extract_link_from_tags(entry, Tail(selectors), base_url)

----------------------------------------------------------------------------
(* Portfolio structurer.  doc is the page as BeautifulSoup answers the      *)
(* queries of parse_portfolio: name_tags, about_tags (texts of the tags the *)
(* name/about selectors match), title (Optional text of <title>),         *)
(* paragraphs (texts of the <p> tags), skills (Optional: the matches of     *)
(* the skills selectors inside the skills section), experience, projects,  *)
(* education (the entries of each section, <<>> without a section) and     *)
(* contact (platform -> Optional element [name, href, text]).              *)

AboutExcludeKeywords ==
    {<<"c","o","n","t","a","c","t">>,
     <<"r","e","s","u","m","e">>,
     <<"p","r","o","j","e","c","t","s">>,
     <<"s","k","i","l","l","s">>}
ParagraphKeywords ==
    {<<"e","x","p","e","r","i","e","n","c","e">>,
     <<"s","k","i","l","l","s">>,
     <<"e","d","u","c","a","t","i","o","n">>,
     <<"c","o","n","t","a","c","t">>,
     <<"p","r","o","j","e","c","t">>}

\* lines 241-243
PortfolioName(doc) ==
    LET selected == extract_text_from_tags(doc.name_tags, 100, <<>>, {}, DefaultExcludeKeywords) IN
    IF Truthy(selected) THEN selected
    ELSE clean_text(IF IsSome(doc.title) THEN Some(SplitOn(doc.title[1], <<"|">>)[1]) ELSE None)

\* line 253: the paragraph soup.find returns
IsAboutParagraph(text) ==
    Len(text) > 100 /\ ~\E k \in ParagraphKeywords : Contains(Lower(text), Lower(k))

\* lines 248-255
PortfolioAbout(doc) ==
    LET selected == extract_text_from_tags(doc.about_tags, 1000, <<>>, {}, AboutExcludeKeywords) IN
    IF Truthy(selected) THEN selected
    ELSE IF \E i \in 1..Len(doc.paragraphs) : IsAboutParagraph(doc.paragraphs[i])
         THEN clean_text(Some(doc.paragraphs[
                  CHOOSE i \in 1..Len(doc.paragraphs) :
                      /\ IsAboutParagraph(doc.paragraphs[i])
                      /\ \A j \in 1..(i - 1) : ~IsAboutParagraph(doc.paragraphs[j])]))
         ELSE selected

\* line 274
RECURSIVE CleanedNonEmpty(_)
CleanedNonEmpty(raws) ==
    IF Len(raws) = 0 THEN <<>>
    ELSE (IF Truthy(clean_text(Some(raws[1]))) THEN <<clean_text(Some(raws[1]))[1]>> ELSE <<>>)
         \o CleanedNonEmpty(Tail(raws))

\* lines 271-281
ExperienceOf(entry) ==
    [title |-> extract_single_text(entry, <<"h3", "h4", ".job-title", "div.title">>, 100),
     company |-> extract_single_text(entry, <<"h4", ".company-name", "div.company">>, 100),
     date |-> extract_single_text(entry, <<".date-range", ".duration", ".text-sm", "span">>, 50),
     responsibilities |-> CleanedNonEmpty(entry.items)]
\* lines 292-300
ProjectOf(entry, url) ==
    [title |-> extract_single_text(entry, <<"h3", "h2", ".project-name", ".title">>, 100),
     description |-> extract_single_text(entry, <<"p", ".description", ".summary">>, 500),
     link |-> extract_link_from_tags(entry, <<"a[href*=github.com]", "a.live-demo", "a.view-details">>, url)]
\* lines 311-319
EducationOf(entry) ==
    [years |-> extract_single_text(entry, <<".years", ".duration", "span", "h3">>, 50),
     institution |-> extract_single_text(entry, <<"h3", "h4", ".institution">>, 100),
     degree |-> extract_single_text(entry, <<"p", ".degree", ".qualification", "h5">>, 100)]

\* any(d.values()) for the three kinds of entry
AnyValue(d) ==
    \E k \in DOMAIN d : IF k = "responsibilities" THEN Len(d[k]) > 0 ELSE Truthy(d[k])

\* lines 270-283, 291-302, 310-321: the entries kept, in document order
RECURSIVE PortfolioEntries(_, _, _)
PortfolioEntries(entries, kind, url) ==
    IF Len(entries) = 0 THEN <<>>
    ELSE LET d == CASE kind = "experience" -> ExperienceOf(entries[1])
                    [] kind = "projects" -> ProjectOf(entries[1], url)
                    [] kind = "education" -> EducationOf(entries[1])
         IN  (IF AnyValue(d) THEN <<d>> ELSE <<>>) \o PortfolioEntries(Tail(entries), kind, url)

ContactPlatforms == {"linkedin", "twitter", "instagram", "github", "email", "phone"}
PlatformChars(platform) ==
    CASE platform = "linkedin" -> <<"l","i","n","k","e","d","i","n">>
      [] platform = "twitter" -> <<"t","w","i","t","t","e","r">>
      [] platform = "instagram" -> <<"i","n","s","t","a","g","r","a","m">>
      [] platform = "github" -> <<"g","i","t","h","u","b">>
      [] platform = "email" -> <<"e","m","a","i","l">>
      [] platform = "phone" -> <<"p","h","o","n","e">>

\* lines 335-347: <<>> when no key is set, <<v>> when contact[platform] = v
ContactAssigned(platform, found) ==
    IF IsNone(found) THEN <<>>
    ELSE LET elem == found[1] IN
         IF platform \in {"email", "phone"} /\ elem.name = "p"
         THEN <<clean_text(Some(elem.text))>>
         ELSE IF Truthy(elem.href)
              THEN <<Some(ReplaceAll(ReplaceAll(elem.href[1], <<"m","a","i","l","t","o",":">>, <<>>), <<"t","e","l",":">>, <<>>))>>
              ELSE LET text_content == clean_text(Some(elem.text)) IN
                   IF Truthy(text_content)
                      /\ Contains(Lower(text_content[1]), PlatformChars(platform))
                   THEN <<text_content>>
                   ELSE <<>>

PortfolioContact(doc) ==
    [platform \in {q \in ContactPlatforms : Len(ContactAssigned(q, doc.contact[q])) > 0} |->
        ContactAssigned(platform, doc.contact[platform])[1]]

\* lines 229-349: the record built
parse_portfolio(doc, url) ==
    [name |-> PortfolioName(doc),
     about |-> PortfolioAbout(doc),
     skills |-> IF IsSome(doc.skills) THEN extract_list_from_tags(doc.skills[1], <<",">>) ELSE <<>>,
     experience |-> PortfolioEntries(doc.experience, "experience", url),
     projects |-> PortfolioEntries(doc.projects, "projects", url),
     education |-> PortfolioEntries(doc.education, "education", url),
     contact |-> PortfolioContact(doc)]

\* line 353
SnapshotName(url) ==
    <<"p","o","r","t","f","o","l","i","o","_">> \o ReplaceAll(ReplaceAll(ReplaceAll(url, <<"h","t","t","p","s",":","/","/">>, <<>>), <<"h","t","t","p",":","/","/">>, <<>>), <<"/">>, <<"_">>) \o <<".","j","s","o","n">>

----------------------------------------------------------------------------
(* Pattern library: identity fields *)

IsDigitAt(s, i) == i >= 1 /\ i <= Len(s) /\ s[i] \in Digits
\* \d{n} at position i
DigitsAt(s, i, n) == \A k \in 0..(n - 1) : IsDigitAt(s, i + k)
\* re.search(r'\d{n}', s)
HasDigitRun(s, n) == \E i \in 1..(Len(s) - n + 1) : DigitsAt(s, i, n)
\* the position after a maximal run of characters of cs starting at i
RECURSIVE SkipSet(_, _, _)
SkipSet(s, i, cs) == IF i <= Len(s) /\ s[i] \in cs THEN SkipSet(s, i + 1, cs) ELSE i

\* \b just before position i (1..Len(s)+1)
IsWordAt(s, i) == i >= 1 /\ i <= Len(s) /\ IsWordChar(s[i])
WordBoundary(s, i) == IsWordAt(s, i - 1) # IsWordAt(s, i)
AlphaNum == Letters \cup Digits
\* the least element of a non-empty set of positions
Least(S) == CHOOSE i \in S : \A j \in S : i <= j
Greatest(S) == CHOOSE i \in S : \A j \in S : j <= i

\* email_pattern matched from i: the position of the "@", 0 when no local part
\* followed by "@" starts at i
EmailAt(s, i) ==
    LET a == SkipSet(s, i, AlphaNum \cup {".", "_", "%", "+", "-"}) IN
    IF WordBoundary(s, i) /\ a > i /\ a <= Len(s) /\ s[a] = "@" THEN a ELSE 0
\* the positions where a match whose last dot is at d can end (exclusive)
EmailEnds(s, d) == {e \in (d + 3)..SkipSet(s, d + 1, Letters \cup {"|"}) : WordBoundary(s, e)}
\* the dots that can precede the top-level part of a match with its "@" at a
EmailDots(s, a) ==
    {d \in (a + 2)..(SkipSet(s, a + 1, AlphaNum \cup {".", "-"}) - 1) :
        s[d] = "." /\ EmailEnds(s, d) # {}}
\* extract_email, lines 97-101: leftmost match, greedy domain, greedy top-level part
extract_email(text) ==
    LET starts == {i \in 1..Len(text) : EmailAt(text, i) > 0 /\ EmailDots(text, EmailAt(text, i)) # {}} IN
    IF starts = {} THEN None
    ELSE LET i == Least(starts)
             d == Greatest(EmailDots(text, EmailAt(text, i)))
         IN  Some(SubSeq(text, i, Greatest(EmailEnds(text, d)) - 1))

\* re.sub(r'[^\d+]', '', match)
IsPhoneChar(c) == c \in Digits \/ c = "+"
PhoneSeps == {"-", ".", " ", "\t", "\n", "\r"}
\* the position after an optional character of cs at i
SkipOne(s, i, cs) == IF i <= Len(s) /\ s[i] \in cs THEN i + 1 ELSE i
\* phone_patterns[0] matched from i: the end of the match (exclusive), 0 without a match
Phone1End(s, i) ==
    LET b == SkipOne(s, i, {"+"})
        e == SkipSet(s, b, Digits \cup {" ", "\t", "\n", "\r", "-", "(", ")"})
    IN  IF e - b >= 10 THEN e ELSE 0
\* phone_patterns[1] matched from i with n leading digits
Phone2EndN(s, i, n) ==
    LET b == SkipOne(s, i, {"+"})
        c == SkipOne(s, SkipOne(s, b + n, PhoneSeps), {"("})
        f == SkipOne(s, SkipOne(s, c + 3, {")"}), PhoneSeps)
        g == SkipOne(s, f + 3, PhoneSeps)
    IN  IF DigitsAt(s, b, n) /\ DigitsAt(s, c, 3) /\ DigitsAt(s, f, 3) /\ DigitsAt(s, g, 4)
        THEN g + 4 ELSE 0
Phone2End(s, i) ==
    IF Phone2EndN(s, i, 3) > 0 THEN Phone2EndN(s, i, 3)
    ELSE IF Phone2EndN(s, i, 2) > 0 THEN Phone2EndN(s, i, 2)
    ELSE Phone2EndN(s, i, 1)
\* phone_patterns[2] matched from i
Phone3End(s, i) ==
    LET c == SkipSet(s, i + 5, {" ", "\t", "\n", "\r"})
        g == SkipOne(s, c + 3, PhoneSeps)
    IN  IF /\ i <= Len(s) /\ s[i] = "(" /\ DigitsAt(s, i + 1, 3)
           /\ i + 4 <= Len(s) /\ s[i + 4] = ")"
           /\ DigitsAt(s, c, 3) /\ DigitsAt(s, g, 4)
        THEN g + 4 ELSE 0
PhoneEnd(k, s, i) ==
    CASE k = 1 -> Phone1End(s, i) [] k = 2 -> Phone2End(s, i) [] k = 3 -> Phone3End(s, i)
\* the cleaned leftmost match of pattern k, None without a match
PhoneCandidate(k, s) ==
    LET starts == {i \in 1..Len(s) : PhoneEnd(k, s, i) > 0} IN
    IF starts = {} THEN None
    ELSE Some(SelectSeq(SubSeq(s, Least(starts), PhoneEnd(k, s, Least(starts)) - 1), IsPhoneChar))
\* extract_phone, lines 103-119
RECURSIVE PhoneFrom(_, _)
PhoneFrom(k, s) ==
    IF k > 3 THEN None
    ELSE IF IsSome(PhoneCandidate(k, s)) /\ Len(PhoneCandidate(k, s)[1]) >= 10
         THEN PhoneCandidate(k, s)
         ELSE PhoneFrom(k + 1, s)
extract_phone(text) == PhoneFrom(1, text)

\* the position after p if p occurs at i, else i
SkipWord(s, i, p) == IF IsSubstringAt(p, s, i) THEN i + Len(p) ELSE i
\* github_pattern matched from i in the lower-cased text s ((?i)): end of the match
\* (exclusive), 0 without a match
GithubEnd(s, i) ==
    LET a == IF SkipWord(s, i, <<"h","t","t","p","s",":","/","/">>) > i THEN SkipWord(s, i, <<"h","t","t","p","s",":","/","/">>) ELSE SkipWord(s, i, <<"h","t","t","p",":","/","/">>)
        b == SkipWord(s, a, <<"w","w","w",".">>)
        c == SkipWord(s, b, <<"g","i","t","h","u","b",".","c","o","m","/">>)
        e == SkipSet(s, c, AlphaNum \cup {"_", "-"})
    IN  IF c > b /\ e > c THEN e ELSE 0
\* extract_github_url, lines 121-125
extract_github_url(text) ==
    LET low == Lower(text)
        starts == {i \in 1..Len(text) : GithubEnd(low, i) > 0}
    IN  IF starts = {} THEN None
        ELSE Some(SubSeq(text, Least(starts), GithubEnd(low, Least(starts)) - 1))

\* url_pattern: the position after the scheme or the www. prefix at i, 0 without one
UrlHostStart(s, i) ==
    IF IsSubstringAt(<<"h","t","t","p","s",":","/","/">>, s, i) THEN i + 8
    ELSE IF IsSubstringAt(<<"h","t","t","p",":","/","/">>, s, i) THEN i + 7
    ELSE IF IsSubstringAt(<<"w","w","w",".">>, s, i) THEN i + 4
    ELSE 0
\* p is the end of a host label; best is the end of the last label so far that starts
\* with two letters or more (the label the final group of url_pattern takes)
RECURSIVE UrlDomainEnd(_, _, _)
UrlDomainEnd(s, p, best) ==
    IF p + 1 <= Len(s) /\ s[p] = "." /\ s[p + 1] \in AlphaNum \cup {"-"}
    THEN LET a == SkipSet(s, p + 1, Letters) IN
         UrlDomainEnd(s, SkipSet(s, p + 1, AlphaNum \cup {"-"}), IF a - (p + 1) >= 2 THEN a ELSE best)
    ELSE best
\* url_pattern matched from i: end of the match (exclusive), 0 without a match
UrlEnd(s, i) ==
    LET h == UrlHostStart(s, i)
        d == IF h > 0 /\ SkipSet(s, h, AlphaNum \cup {"-"}) > h
             THEN UrlDomainEnd(s, SkipSet(s, h, AlphaNum \cup {"-"}), 0) ELSE 0
    IN  IF d > 0 /\ d <= Len(s) /\ s[d] = "/"
        THEN Least({j \in (d + 1)..(Len(s) + 1) : j = Len(s) + 1 \/ IsWS(s[j])})
        ELSE d
\* re.finditer(url_pattern, s) from position p: the matches in text order
RECURSIVE UrlMatches(_, _)
UrlMatches(s, p) ==
    LET starts == {i \in p..Len(s) : UrlEnd(s, i) > 0} IN
    IF starts = {} THEN <<>>
    ELSE <<SubSeq(s, Least(starts), UrlEnd(s, Least(starts)) - 1)>>
         \o UrlMatches(s, UrlEnd(s, Least(starts)))
WithScheme(url) == IF StartsWith(url, <<"h","t","t","p">>) THEN url ELSE <<"h","t","t","p","s",":","/","/">> \o url
portfolio_keywords == <<<<"p","o","r","t","f","o","l","i","o",":">>, <<"p","o","r","t","f","o","l","i","o"," ","w","e","b","s","i","t","e",":">>, <<"p","o","r","t","f","o","l","i","o"," ","u","r","l",":">>, <<"p","o","r","t","f","o","l","i","o"," ","l","i","n","k",":">>>>
PortfolioDomains == {<<"v","e","r","c","e","l",".","a","p","p">>, <<"n","e","t","l","i","f","y",".","a","p","p">>, <<"g","i","t","h","u","b",".","i","o">>, <<"p","o","r","t","f","o","l","i","o">>, <<"p","e","r","s","o","n","a","l">>}
IsPortfolioCandidate(url) ==
    /\ ~ContainsAny(Lower(url), {<<"g","i","t","h","u","b",".","c","o","m">>, <<"i","n","s","t","a","g","r","a","m",".","c","o","m">>})
    /\ ContainsAny(Lower(url), PortfolioDomains)
\* lines 131-142: the first keyword, in list order, with a URL after it
RECURSIVE PortfolioAfterKeyword(_, _)
PortfolioAfterKeyword(text, k) ==
    IF k > Len(portfolio_keywords) THEN None
    ELSE LET after == IF Contains(Lower(text), portfolio_keywords[k])
                      THEN UrlMatches(Strip(SplitOn(Lower(text), portfolio_keywords[k])[2]), 1)
                      ELSE <<>>
         IN  IF Len(after) > 0 THEN Some(WithScheme(after[1]))
             ELSE PortfolioAfterKeyword(text, k + 1)
\* extract_portfolio_url, lines 127-158
extract_portfolio_url(text) ==
    LET labelled == PortfolioAfterKeyword(text, 1)
        kept == SelectSeq(UrlMatches(text, 1), IsPortfolioCandidate)
    IN  IF IsSome(labelled) THEN labelled
        ELSE IF Len(kept) > 0 THEN Some(WithScheme(kept[1]))
        ELSE None

\* instagram_pattern matched from i in the lower-cased text s ((?i)): start of group 1,
\* 0 without a match
InstagramGroup(s, i) ==
    LET b == IF i <= Len(s) /\ s[i] = "@" THEN i + 1
             ELSE IF IsSubstringAt(<<"i","n","s","t","a","g","r","a","m",".","c","o","m","/">>, s, i)
             THEN i + 14 ELSE 0
    IN  IF b > 0 /\ SkipSet(s, b, AlphaNum \cup {"_", "."}) > b THEN b ELSE 0
\* extract_instagram_username, lines 160-169
extract_instagram_username(text) ==
    LET low == Lower(text)
        starts == {i \in 1..Len(text) : InstagramGroup(low, i) > 0}
    IN
    IF starts = {} THEN None
    ELSE LET i == Least(starts)
             b == InstagramGroup(low, i)
             e == SkipSet(text, b, AlphaNum \cup {"_", "."})
         IN  IF IsSubstringAt(<<"i","n","s","t","a","g","r","a","m",".","c","o","m","/">>, text, i)
             THEN Some(SubSeq(text, b, e - 1))
             ELSE Some(LStripSet(SubSeq(text, i, e - 1), {"@"}))

----------------------------------------------------------------------------
(* Resume structurer: vocabularies *)

\* common_skills, in source order (Swift and Kotlin occur twice)
common_skills ==
  <<<<"P","y","t","h","o","n">>, <<"J","a","v","a">>, <<"J","a","v","a","S","c","r","i","p","t">>,
    <<"T","y","p","e","S","c","r","i","p","t">>, <<"C","+","+">>, <<"C","#">>,
    <<"R","u","b","y">>, <<"P","H","P">>, <<"G","o">>,
    <<"R","u","s","t">>, <<"S","w","i","f","t">>, <<"K","o","t","l","i","n">>,
    <<"H","T","M","L">>, <<"C","S","S">>, <<"S","Q","L">>,
    <<"N","o","S","Q","L">>, <<"G","r","a","p","h","Q","L">>, <<"R">>,
    <<"M","A","T","L","A","B">>, <<"S","c","a","l","a">>, <<"P","e","r","l">>,
    <<"S","h","e","l","l">>, <<"B","a","s","h">>, <<"P","o","w","e","r","S","h","e","l","l">>,
    <<"R","e","a","c","t">>, <<"A","n","g","u","l","a","r">>, <<"V","u","e">>,
    <<"N","o","d","e",".","j","s">>, <<"E","x","p","r","e","s","s">>, <<"D","j","a","n","g","o">>,
    <<"F","l","a","s","k">>, <<"S","p","r","i","n","g">>, <<"L","a","r","a","v","e","l">>,
    <<"A","S","P",".","N","E","T">>, <<"j","Q","u","e","r","y">>, <<"B","o","o","t","s","t","r","a","p">>,
    <<"T","a","i","l","w","i","n","d"," ","C","S","S">>, <<"S","A","S","S">>, <<"L","E","S","S">>,
    <<"W","e","b","p","a","c","k">>, <<"B","a","b","e","l">>, <<"n","p","m">>,
    <<"Y","a","r","n">>, <<"R","E","S","T">>, <<"S","O","A","P">>,
    <<"W","e","b","S","o","c","k","e","t">>, <<"M","y","S","Q","L">>, <<"P","o","s","t","g","r","e","S","Q","L">>,
    <<"M","o","n","g","o","D","B">>, <<"R","e","d","i","s">>, <<"E","l","a","s","t","i","c","s","e","a","r","c","h">>,
    <<"C","a","s","s","a","n","d","r","a">>, <<"O","r","a","c","l","e">>, <<"S","Q","L"," ","S","e","r","v","e","r">>,
    <<"D","y","n","a","m","o","D","B">>, <<"F","i","r","e","b","a","s","e">>, <<"C","o","u","c","h","D","B">>,
    <<"N","e","o","4","j">>, <<"A","W","S">>, <<"A","z","u","r","e">>,
    <<"G","C","P">>, <<"D","i","g","i","t","a","l"," ","O","c","e","a","n">>, <<"H","e","r","o","k","u">>,
    <<"V","e","r","c","e","l">>, <<"N","e","t","l","i","f","y">>, <<"L","a","m","b","d","a">>,
    <<"E","C","2">>, <<"S","3">>, <<"R","D","S">>,
    <<"C","l","o","u","d","F","r","o","n","t">>, <<"R","o","u","t","e"," ","5","3">>, <<"C","l","o","u","d","F","o","r","m","a","t","i","o","n">>,
    <<"D","o","c","k","e","r">>, <<"K","u","b","e","r","n","e","t","e","s">>, <<"J","e","n","k","i","n","s">>,
    <<"G","i","t">>, <<"G","i","t","H","u","b">>, <<"G","i","t","L","a","b">>,
    <<"B","i","t","b","u","c","k","e","t">>, <<"C","I","/","C","D">>, <<"T","e","r","r","a","f","o","r","m">>,
    <<"A","n","s","i","b","l","e">>, <<"P","u","p","p","e","t">>, <<"C","h","e","f">>,
    <<"P","r","o","m","e","t","h","e","u","s">>, <<"G","r","a","f","a","n","a">>, <<"E","L","K"," ","S","t","a","c","k">>,
    <<"S","p","l","u","n","k">>, <<"J","i","r","a">>, <<"C","o","n","f","l","u","e","n","c","e">>,
    <<"T","r","e","l","l","o">>, <<"A","s","a","n","a">>, <<"M","a","c","h","i","n","e"," ","L","e","a","r","n","i","n","g">>,
    <<"D","e","e","p"," ","L","e","a","r","n","i","n","g">>, <<"T","e","n","s","o","r","F","l","o","w">>, <<"P","y","T","o","r","c","h">>,
    <<"K","e","r","a","s">>, <<"S","c","i","k","i","t","-","l","e","a","r","n">>, <<"P","a","n","d","a","s">>,
    <<"N","u","m","P","y">>, <<"S","c","i","P","y">>, <<"N","L","T","K">>,
    <<"S","p","a","C","y">>, <<"O","p","e","n","C","V">>, <<"C","o","m","p","u","t","e","r"," ","V","i","s","i","o","n">>,
    <<"N","L","P">>, <<"N","a","t","u","r","a","l"," ","L","a","n","g","u","a","g","e"," ","P","r","o","c","e","s","s","i","n","g">>, <<"D","a","t","a"," ","S","c","i","e","n","c","e">>,
    <<"i","O","S">>, <<"A","n","d","r","o","i","d">>, <<"R","e","a","c","t"," ","N","a","t","i","v","e">>,
    <<"F","l","u","t","t","e","r">>, <<"X","a","m","a","r","i","n">>, <<"S","w","i","f","t">>,
    <<"K","o","t","l","i","n">>, <<"M","o","b","i","l","e"," ","A","p","p"," ","D","e","v","e","l","o","p","m","e","n","t">>, <<"A","p","p"," ","S","t","o","r","e">>,
    <<"G","o","o","g","l","e"," ","P","l","a","y">>, <<"C","y","b","e","r","s","e","c","u","r","i","t","y">>, <<"N","e","t","w","o","r","k"," ","S","e","c","u","r","i","t","y">>,
    <<"A","p","p","l","i","c","a","t","i","o","n"," ","S","e","c","u","r","i","t","y">>, <<"C","l","o","u","d"," ","S","e","c","u","r","i","t","y">>, <<"P","e","n","e","t","r","a","t","i","o","n"," ","T","e","s","t","i","n","g">>,
    <<"V","u","l","n","e","r","a","b","i","l","i","t","y"," ","A","s","s","e","s","s","m","e","n","t">>, <<"S","I","E","M">>, <<"F","i","r","e","w","a","l","l">>,
    <<"I","D","S","/","I","P","S">>, <<"C","r","y","p","t","o","g","r","a","p","h","y">>, <<"S","S","L","/","T","L","S">>,
    <<"O","A","u","t","h">>, <<"J","W","T">>, <<"S","A","M","L">>,
    <<"B","l","o","c","k","c","h","a","i","n">>, <<"S","m","a","r","t"," ","C","o","n","t","r","a","c","t","s">>, <<"S","o","l","i","d","i","t","y">>,
    <<"E","t","h","e","r","e","u","m">>, <<"B","i","t","c","o","i","n">>, <<"I","o","T">>,
    <<"E","m","b","e","d","d","e","d"," ","S","y","s","t","e","m","s">>, <<"A","r","d","u","i","n","o">>, <<"R","a","s","p","b","e","r","r","y"," ","P","i">>,
    <<"M","i","c","r","o","c","o","n","t","r","o","l","l","e","r","s">>, <<"G","a","m","e"," ","D","e","v","e","l","o","p","m","e","n","t">>, <<"U","n","i","t","y">>,
    <<"U","n","r","e","a","l"," ","E","n","g","i","n","e">>, <<"3","D"," ","M","o","d","e","l","i","n","g">>, <<"C","A","D">>,
    <<"V","i","r","t","u","a","l"," ","R","e","a","l","i","t","y">>, <<"A","u","g","m","e","n","t","e","d"," ","R","e","a","l","i","t","y">>, <<"A","R","/","V","R">>>>
CommonSkillsLower == {Lower(common_skills[i]) : i \in 1..Len(common_skills)}

\* the strings degree_patterns match: each alternative, with and without its optional dot
DegreeWords ==
    {<<"b","a","c","h","e","l","o","r">>,
     <<"m","a","s","t","e","r">>,
     <<"p","h","d">>,
     <<"b",".","t","e","c","h">>,
     <<"b","t","e","c","h">>,
     <<"m",".","t","e","c","h">>,
     <<"m","t","e","c","h">>,
     <<"b",".","e">>,
     <<"b","e">>,
     <<"m",".","e">>,
     <<"m","e">>,
     <<"b",".","s","c">>,
     <<"b","s","c">>,
     <<"m",".","s","c">>,
     <<"m","s","c">>,
     <<"m","b","a">>,
     <<"d","i","p","l","o","m","a">>,
     <<"c","o","m","p","u","t","e","r"," ","s","c","i","e","n","c","e">>,
     <<"e","n","g","i","n","e","e","r","i","n","g">>,
     <<"t","e","c","h","n","o","l","o","g","y">>,
     <<"s","c","i","e","n","c","e">>,
     <<"a","r","t","s">>,
     <<"c","o","m","m","e","r","c","e">>}
\* the alternatives of institution_patterns
InstitutionWords ==
    {<<"u","n","i","v","e","r","s","i","t","y">>,
     <<"c","o","l","l","e","g","e">>,
     <<"i","n","s","t","i","t","u","t","e">>,
     <<"s","c","h","o","o","l">>,
     <<"i","i","i","t">>,
     <<"i","i","t">>,
     <<"n","i","t">>}
job_keywords ==
    {<<"e","n","g","i","n","e","e","r">>,
     <<"d","e","v","e","l","o","p","e","r">>,
     <<"a","r","c","h","i","t","e","c","t">>,
     <<"s","c","i","e","n","t","i","s","t">>,
     <<"m","a","n","a","g","e","r">>,
     <<"l","e","a","d">>,
     <<"c","o","n","s","u","l","t","a","n","t">>,
     <<"a","n","a","l","y","s","t">>,
     <<"s","p","e","c","i","a","l","i","s","t">>,
     <<"i","n","t","e","r","n">>,
     <<"a","s","s","o","c","i","a","t","e">>,
     <<"d","i","r","e","c","t","o","r">>,
     <<"s","o","f","t","w","a","r","e">>,
     <<"w","e","b">>,
     <<"m","o","b","i","l","e">>,
     <<"f","u","l","l"," ","s","t","a","c","k">>,
     <<"f","r","o","n","t","e","n","d">>,
     <<"b","a","c","k","e","n","d">>,
     <<"d","e","v","o","p","s">>,
     <<"d","a","t","a">>,
     <<"m","l">>,
     <<"a","i">>,
     <<"p","r","o","j","e","c","t">>,
     <<"t","e","c","h","n","i","c","a","l">>,
     <<"s","e","n","i","o","r">>,
     <<"j","u","n","i","o","r">>,
     <<"p","r","i","n","c","i","p","a","l">>}
cert_keywords ==
    {<<"a","w","s">>,
     <<"a","z","u","r","e">>,
     <<"g","c","p">>,
     <<"c","i","s","c","o">>,
     <<"m","i","c","r","o","s","o","f","t">>,
     <<"o","r","a","c","l","e">>,
     <<"i","b","m">>,
     <<"g","o","o","g","l","e">>,
     <<"a","m","a","z","o","n">>,
     <<"c","o","m","p","t","i","a">>,
     <<"c","i","s","s","p">>,
     <<"p","m","p">>,
     <<"i","t","i","l">>,
     <<"s","c","r","u","m">>,
     <<"a","g","i","l","e">>,
     <<"c","e","r","t","i","f","i","e","d">>,
     <<"c","e","r","t","i","f","i","c","a","t","i","o","n">>,
     <<"c","e","r","t","i","f","i","c","a","t","e">>}
project_keywords ==
    {<<"p","r","o","j","e","c","t">>,
     <<"a","p","p","l","i","c","a","t","i","o","n">>,
     <<"s","y","s","t","e","m">>,
     <<"p","l","a","t","f","o","r","m">>,
     <<"w","e","b","s","i","t","e">>,
     <<"a","p","p">>,
     <<"s","o","f","t","w","a","r","e">>,
     <<"t","o","o","l">>,
     <<"f","r","a","m","e","w","o","r","k">>,
     <<"l","i","b","r","a","r","y">>,
     <<"d","e","v","e","l","o","p","e","d">>,
     <<"c","r","e","a","t","e","d">>,
     <<"b","u","i","l","t">>,
     <<"i","m","p","l","e","m","e","n","t","e","d">>,
     <<"d","e","s","i","g","n","e","d">>}

----------------------------------------------------------------------------
(* Resume structurer: skills *)

WS == {" ", "\t", "\n", "\r"}
\* the position after the word of ws that stands at i, 0 when none does
WordsAt(s, i, ws) ==
    IF \E w \in ws : IsSubstringAt(w, s, i)
    THEN i + Len(CHOOSE w \in ws : IsSubstringAt(w, s, i)) ELSE 0
\* \b(?:heads)\s+(?:links)\s+ matched from i, all whitespace taken: the position after it
PhraseEnd(s, i, heads, links) ==
    LET a == WordsAt(s, i, heads)
        b == SkipSet(s, a, WS)
        c == WordsAt(s, b, links)
        d == SkipSet(s, c, WS)
    IN  IF WordBoundary(s, i) /\ a > 0 /\ b > a /\ c > 0 /\ d > c THEN d ELSE 0
\* re.search(rf'\b{skill}\b', s)
HasWholeWord(s, w) ==
    \E i \in 1..(Len(s) - Len(w) + 1) :
        IsSubstringAt(w, s, i) /\ WordBoundary(s, i) /\ WordBoundary(s, i + Len(w))
\* the context phrases of lines 184-187: head word and link word
context_patterns ==
    {<<<<"p","r","o","f","i","c","i","e","n","t">>, <<"i","n">>>>, <<<<"e","x","p","e","r","t">>, <<"i","n">>>>,
     <<<<"e","x","p","e","r","i","e","n","c","e","d">>, <<"w","i","t","h">>>>, <<<<"k","n","o","w","l","e","d","g","e">>, <<"o","f">>>>}
\* the positions just after a context phrase and its whitespace
ContextEnds(s) ==
    {d \in {PhraseEnd(s, i, {cp[1]}, {cp[2]}) : i \in 1..Len(s), cp \in context_patterns} : d > 0}
\* lines 179-193: one of the five patterns of the skill w matches; ends is ContextEnds(s)
MentionsSkill(s, w, ends) ==
    \/ HasWholeWord(s, w)
    \/ \E d \in ends : IsSubstringAt(w, s, d) /\ WordBoundary(s, d + Len(w))
\* skill_patterns, lines 196-201: the head words and the link words of each
skill_patterns ==
    << <<{<<"p","r","o","f","i","c","i","e","n","t">>, <<"e","x","p","e","r","t">>, <<"s","k","i","l","l","e","d">>, <<"e","x","p","e","r","i","e","n","c","e","d">>, <<"f","a","m","i","l","i","a","r">>, <<"k","n","o","w","l","e","d","g","e","a","b","l","e">>}, {<<"i","n">>, <<"w","i","t","h">>, <<"a","t">>}>>,
       <<{<<"e","x","p","e","r","i","e","n","c","e">>, <<"k","n","o","w","l","e","d","g","e">>, <<"s","k","i","l","l","s">>}, {<<"i","n">>, <<"w","i","t","h">>}>>,
       <<{<<"w","o","r","k","e","d">>, <<"d","e","v","e","l","o","p","e","d">>, <<"b","u","i","l","t">>, <<"c","r","e","a","t","e","d">>, <<"i","m","p","l","e","m","e","n","t","e","d">>}, {<<"w","i","t","h">>, <<"u","s","i","n","g">>}>>,
       <<{<<"c","e","r","t","i","f","i","e","d">>, <<"c","e","r","t","i","f","i","c","a","t","i","o","n">>}, {<<"i","n">>, <<"f","o","r">>}>> >>
PhraseChars == AlphaNum \cup {"_", "+", "#", "."} \cup WS
\* skill_patterns[k] matched from i: <<start of group 1, end of the match>>, <<>> without
\* a match; when no phrase character follows the whitespace, the group takes its last one
SkillPhraseAt(k, s, i) ==
    LET d == PhraseEnd(s, i, skill_patterns[k][1], skill_patterns[k][2])
        e == SkipSet(s, d, PhraseChars)
    IN  IF d = 0 THEN <<>>
        ELSE IF e > d THEN <<d, e>>
        ELSE IF d - 2 >= 1 /\ IsWS(s[d - 2]) THEN <<d - 1, d>>
        ELSE <<>>
\* re.finditer(skill_patterns[k], s) from position p: group 1 of each match, stripped
RECURSIVE SkillPhrases(_, _, _)
SkillPhrases(k, s, p) ==
    LET starts == {i \in p..Len(s) : SkillPhraseAt(k, s, i) # <<>>} IN
    IF starts = {} THEN {}
    ELSE LET m == SkillPhraseAt(k, s, Least(starts)) IN
         {Strip(SubSeq(s, m[1], m[2] - 1))} \cup SkillPhrases(k, s, m[2])
\* the characters of the vocabulary in code point order
CodeOrder == <<" ","#","+","-",".","/","0","1","2","3","4","5","6","7","8","9","A","B","C","D","E","F","G","H","I","J","K","L","M","N","O","P","Q","R","S","T","U","V","W","X","Y","Z","_","a","b","c","d","e","f","g","h","i","j","k","l","m","n","o","p","q","r","s","t","u","v","w","x","y","z">>
CodePoint(c) == CHOOSE i \in 1..Len(CodeOrder) : CodeOrder[i] = c
\* Python's str ordering
RECURSIVE StrLess(_, _)
StrLess(a, b) ==
    IF Len(a) = 0 THEN Len(b) > 0
    ELSE IF Len(b) = 0 THEN FALSE
    ELSE IF a[1] = b[1] THEN StrLess(Tail(a), Tail(b))
    ELSE CodePoint(a[1]) < CodePoint(b[1])
\* sorted(list(S))
RECURSIVE Sorted(_)
Sorted(S) ==
    IF S = {} THEN <<>>
    ELSE LET m == CHOOSE x \in S : \A y \in S \ {x} : StrLess(x, y) IN
         <<m>> \o Sorted(S \ {m})
\* extract_skills, lines 171-211
extract_skills(text) ==
    LET text_lower == Lower(text)
        ends == ContextEnds(text_lower)
        phrases == UNION {SkillPhrases(k, text_lower, 1) : k \in 1..Len(skill_patterns)}
    IN  Sorted({common_skills[n] : n \in {n \in 1..Len(common_skills) :
                    \/ MentionsSkill(text_lower, Lower(common_skills[n]), ends)
                    \/ \E ph \in phrases : Contains(Lower(ph), Lower(common_skills[n]))}})

----------------------------------------------------------------------------
(* Resume structurer: line patterns *)

\* year_pattern: (\d{4})\s*[-EnDash]\s*(?:\d{4}|present|current), case-insensitive
YearMatch(line) ==
    \E i \in 1..Len(line) :
        /\ DigitsAt(line, i, 4)
        /\ LET d == SkipSet(line, i + 4, {" ", "\t", "\n", "\r"})
               e == SkipSet(line, d + 1, {" ", "\t", "\n", "\r"})
           IN  /\ d <= Len(line) /\ line[d] \in {"-", EnDash}
               /\ \/ DigitsAt(line, e, 4)
                  \/ IsSubstringAt(<<"p","r","e","s","e","n","t">>, Lower(line), e)
                  \/ IsSubstringAt(<<"c","u","r","r","e","n","t">>, Lower(line), e)

\* (?:gpa|cgpa)[:\s]*(\d+\.?\d*) matched with "gpa" starting at i: where group 1 starts
GpaGroupStart(line, i) == SkipSet(line, i + 3, {":", " ", "\t", "\n", "\r"})
GpaAt(line, i) ==
    IsSubstringAt(<<"g","p","a">>, Lower(line), i) /\ IsDigitAt(line, GpaGroupStart(line, i))
GpaMatch(line) == \E i \in 1..Len(line) : GpaAt(line, i)
\* group(1) of the leftmost match
GpaGroup(line) ==
    LET i == CHOOSE i \in 1..Len(line) : GpaAt(line, i) /\ \A j \in 1..(i - 1) : ~GpaAt(line, j)
        b == GpaGroupStart(line, i)
        e == SkipSet(line, b, Digits)
    IN  IF e <= Len(line) /\ line[e] = "."
        THEN SubSeq(line, b, SkipSet(line, e + 1, Digits) - 1)
        ELSE SubSeq(line, b, e - 1)

\* the bullet markers of line.startswith(('-', ...)) and line.lstrip('-... ')
BulletMarkers == {"-", Bullet, "*", MidDot}
StartsWithBullet(line) == Len(line) > 0 /\ line[1] \in BulletMarkers

\* any(d.values()) for a dict whose values are strings and lists
AnyField(d) == \E k \in DOMAIN d : Len(d[k]) > 0

----------------------------------------------------------------------------
(* Resume structurer: the line scans.  A scan state is [current, entries]:  *)
(* current is the open entry (current_edu, current_exp, current_project;   *)
(* None while the dict is empty) and entries the result list so far.       *)

ScanStart == [current |-> None, entries |-> <<>>]
\* mutant: the open entry is appended twice
Mutant_Flushed(st) ==
    IF IsSome(st.current) /\ AnyField(st.current[1])
    THEN Append(Append(st.entries, st.current[1]), st.current[1]) ELSE st.entries
\* `if current and any(current.values()): entries.append(current)`
Flushed(st) ==
    IF IsSome(st.current) /\ AnyField(st.current[1])
    THEN Append(st.entries, st.current[1]) ELSE st.entries
Opened(st, entry) == [current |-> Some(entry), entries |-> Flushed(st)]
\* `if current: current[key] = value`
Assigned(st, key, value) ==
    IF IsSome(st.current) THEN [st EXCEPT !.current = Some([@[1] EXCEPT ![key] = value])] ELSE st

\* extract_education, lines 242-276
EducationLine(st, raw) ==
    LET line == resume_clean_text(raw) IN
    IF Len(line) = 0 THEN st
    ELSE IF ContainsAny(Lower(line), DegreeWords)
    THEN Opened(st, [degree |-> line, institution |-> <<>>, year |-> <<>>, gpa |-> <<>>])
    ELSE IF ContainsAny(Lower(line), InstitutionWords) THEN Assigned(st, "institution", line)
    ELSE IF YearMatch(line) THEN Assigned(st, "year", line)
    ELSE IF GpaMatch(line) THEN Assigned(st, "gpa", GpaGroup(line))
    ELSE st

\* mutant: the contact test of line 306 is dropped
Mutant_ExperienceLine(st, raw) ==
    LET line == resume_clean_text(raw) IN
    IF Len(line) = 0 THEN st
    ELSE IF ContainsAny(Lower(line), job_keywords) /\ Len(line) > 10
    THEN Opened(st, [title |-> line, company |-> <<>>, duration |-> <<>>, description |-> <<>>])
    ELSE IF IsSome(st.current) /\ Len(st.current[1].company) = 0 /\ Len(line) > 3
    THEN Assigned(st, "company", line)
    ELSE IF HasDigitRun(line, 4) /\ IsSome(st.current) THEN Assigned(st, "duration", line)
    ELSE IF IsSome(st.current) /\ StartsWithBullet(line)
    THEN Assigned(st, "description",
                  Append(st.current[1].description, LStripSet(line, BulletMarkers \cup {" "})))
    ELSE st
\* extract_experience, lines 299-333
ExperienceLine(st, raw) ==
    LET line == resume_clean_text(raw) IN
    IF Len(line) = 0 THEN st
    ELSE IF Contains(line, <<"@">>) \/ HasDigitRun(line, 10) THEN st
    ELSE IF ContainsAny(Lower(line), job_keywords) /\ Len(line) > 10
    THEN Opened(st, [title |-> line, company |-> <<>>, duration |-> <<>>, description |-> <<>>])
    ELSE IF IsSome(st.current) /\ Len(st.current[1].company) = 0 /\ Len(line) > 3
    THEN Assigned(st, "company", line)
    ELSE IF HasDigitRun(line, 4) /\ IsSome(st.current) THEN Assigned(st, "duration", line)
    ELSE IF IsSome(st.current) /\ StartsWithBullet(line)
    THEN Assigned(st, "description",
                  Append(st.current[1].description, LStripSet(line, BulletMarkers \cup {" "})))
    ELSE st

\* extract_certifications, lines 352-360
CertificationLine(st, raw) ==
    LET line == Strip(raw) IN
    IF Len(line) = 0 THEN st
    ELSE IF ContainsAny(Lower(line), cert_keywords) /\ Len(line) > 5
    THEN [st EXCEPT !.entries = Append(@, [name |-> line])]
    ELSE st

\* extract_projects, lines 378-402
ProjectLine(st, raw) ==
    LET line == resume_clean_text(raw) IN
    IF Len(line) = 0 THEN st
    ELSE IF ContainsAny(Lower(line), project_keywords) /\ Len(line) > 10
    THEN Opened(st, [name |-> line, description |-> <<>>, technologies |-> <<>>])
    ELSE IF IsSome(st.current) /\ StartsWithBullet(line)
    THEN Assigned(st, "description",
                  Append(st.current[1].description, LStripSet(line, BulletMarkers \cup {" "})))
    ELSE IF IsSome(st.current) /\ ContainsAny(Lower(line), CommonSkillsLower)
    THEN Assigned(st, "technologies", Append(st.current[1].technologies, line))
    ELSE st

\* lines 249, 310 and 385 (with the guards before them): the cleaned line
\* starts a new entry
IsHeaderLine(kind, raw) ==
    LET line == resume_clean_text(raw) IN
    /\ Len(line) > 0
    /\ CASE kind = "extract_education" -> ContainsAny(Lower(line), DegreeWords)
         [] kind = "extract_experience" ->
               /\ ~(Contains(line, <<"@">>) \/ HasDigitRun(line, 10))
               /\ ContainsAny(Lower(line), job_keywords) /\ Len(line) > 10
         [] kind = "extract_projects" ->
               ContainsAny(Lower(line), project_keywords) /\ Len(line) > 10
         [] OTHER -> FALSE
\* lines 253, 314 and 389: the key the header line is stored under
HeaderKey(kind) ==
    CASE kind = "extract_education" -> "degree"
      [] kind = "extract_experience" -> "title"
      [] kind = "extract_projects" -> "name"

ScanKinds == {"extract_education", "extract_experience", "extract_certifications", "extract_projects"}
\* the body of the `for line in lines` loop of the scan of that kind
ScanLine(kind, st, raw) ==
    CASE kind = "extract_education" -> EducationLine(st, raw)
      [] kind = "extract_experience" -> ExperienceLine(st, raw)
      [] kind = "extract_certifications" -> CertificationLine(st, raw)
      [] kind = "extract_projects" -> ProjectLine(st, raw)

\* mutant: the cap `[:5]` is dropped
Mutant_ScanResult(st) == Flushed(st)
\* the statements after the loop: the last flush and the cap `[:5]`
ScanResult(st) == Truncate(Flushed(st), 5)

RECURSIVE ScanLines(_, _, _)
ScanLines(kind, st, lines) ==
    IF Len(lines) = 0 THEN st
    ELSE ScanLines(kind, ScanLine(kind, st, lines[1]), Tail(lines))

\* extract_education / extract_experience / extract_certifications / extract_projects
ExtractSection(kind, text) == ScanResult(ScanLines(kind, ScanStart, SplitOn(text, <<"\n">>)))

----------------------------------------------------------------------------
(* Resume pipeline: parse_resume.  The uploaded content is seen through its *)
(* length and through what the decoding library finds in it: doc is None    *)
(* when the library raises, else Some of the page texts (pdf) or paragraph  *)
(* texts (docx).  A call is followed step by step; a frame holds the steps  *)
(* taken so far (trace), the decoder chosen, the decoded text and the       *)
(* record being built.  An outcome is [ok, value] or [ok, error].           *)

\* validate_file_size, lines 63-68: None, or Some(message) when it raises
Mutant_validate_file_size(size, max_size_mb) ==
    IF size >= max_size_mb * 1024 * 1024 THEN Some("File size exceeds maximum limit")
    ELSE IF size <= 100 THEN Some("File appears to be empty or corrupted")
    ELSE None
validate_file_size(size, max_size_mb) ==
    IF size > max_size_mb * 1024 * 1024 THEN Some("File size exceeds maximum limit")
    ELSE IF size < 100 THEN Some("File appears to be empty or corrupted")
    ELSE None

\* extract_text_from_pdf, lines 70-82: None when it raises
RECURSIVE PagesText(_)
PagesText(pages) ==
    IF Len(pages) = 0 THEN <<>>
    ELSE (IF Len(pages[1]) > 0 THEN pages[1] \o <<"\n">> ELSE <<>>) \o PagesText(Tail(pages))
extract_text_from_pdf(doc) == IF IsNone(doc) THEN None ELSE Some(Strip(PagesText(doc[1])))
\* extract_text_from_docx, lines 84-95: None when it raises
NotBlank(t) == Len(Strip(t)) > 0
extract_text_from_docx(doc) ==
    IF IsNone(doc) THEN None ELSE Some(Join(SelectSeq(doc[1], NotBlank), <<"\n">>))

\* lines 427-443: now is datetime.now(); isoformat() keeps the instant
Mutant_ResumeMetadata(text, now) == [raw_text_length |-> Len(text) + now, timestamp |-> now]
ResumeMetadata(text, now) == [raw_text_length |-> Len(text), timestamp |-> now]
ResumeData(text, now) ==
    [text |-> Some(text),
     email |-> extract_email(text),
     phone |-> extract_phone(text),
     skills |-> Some(extract_skills(text)),
     education |-> Some(ExtractSection("extract_education", text)),
     experience |-> Some(ExtractSection("extract_experience", text)),
     certifications |-> Some(ExtractSection("extract_certifications", text)),
     projects |-> Some(ExtractSection("extract_projects", text)),
     github_url |-> extract_github_url(text),
     portfolio_url |-> extract_portfolio_url(text),
     instagram_username |-> extract_instagram_username(text),
     metadata |-> ResumeMetadata(text, now)]

\* lines 446-452
HasMeaningfulData(d) ==
    \/ Truthy(d.email) \/ Truthy(d.phone) \/ Truthy(d.skills)
    \/ Truthy(d.education) \/ Truthy(d.experience)

\* lines 458-462: the keys whose value is a list, the keys whose value is a str or None
ListKeys == {"skills", "education", "experience", "certifications", "projects"}
StrKeys == {"text", "email", "phone", "github_url", "portfolio_url", "instagram_username"}
NormalizedRecord(d) ==
    [key \in DOMAIN d |->
        IF key \in ListKeys /\ Len(d[key][1]) = 0 THEN None
        ELSE IF key \in StrKeys /\ IsSome(d[key]) /\ Len(Strip(d[key][1])) = 0 THEN None
        ELSE d[key]]

NewFrame == [trace |-> <<>>, decoder |-> "", text |-> <<>>, data |-> None]
Goto(step, frame) == [pc |-> step, locals |-> frame, ret |-> None]
\* mutant: a failing step hands back what the call holds so far
Mutant_Raise(message, frame) ==
    [pc |-> "done", locals |-> frame,
     ret |-> Some([ok |-> TRUE, value |-> [text |-> Some(frame.text)]])]
\* line 467-469: every exception leaves as ResumeParserError("Error parsing resume: ...")
Raise(message, frame) ==
    [pc |-> "failed", locals |-> frame,
     ret |-> Some([ok |-> FALSE, type |-> "ResumeParserError",
                   error |-> <<"Error parsing resume", message>>])]
Return(value, frame) ==
    [pc |-> "done", locals |-> frame, ret |-> Some([ok |-> TRUE, value |-> value])]

\* parse_resume, lines 409-469: the step at position step of the call with argument a
ResumeStep(step, a, frame, now) ==
    LET f == [frame EXCEPT !.trace = Append(@, step)] IN
    CASE step = "size" ->
           IF IsSome(validate_file_size(a.size, 10))
           THEN Raise(validate_file_size(a.size, 10)[1], f) ELSE Goto("kind", f)
      [] step = "kind" ->
           IF EndsWith(Lower(a.filename), <<".","p","d","f">>)
           THEN Goto("decode", [f EXCEPT !.decoder = "pdf"])
           ELSE IF EndsWith(Lower(a.filename), <<".","d","o","c","x">>)
           THEN Goto("decode", [f EXCEPT !.decoder = "docx"])
           ELSE Raise("Unsupported file type", f)
      [] step = "decode" ->
           LET t == IF f.decoder = "pdf" THEN extract_text_from_pdf(a.doc)
                    ELSE extract_text_from_docx(a.doc)
           IN  IF IsNone(t) THEN Raise("Error extracting text", f)
               ELSE Goto("length", [f EXCEPT !.text = t[1]])
      [] step = "length" ->
           IF Len(f.text) = 0 \/ Len(Strip(f.text)) < 50
           THEN Raise("Unable to extract meaningful text from the resume", f)
           ELSE Goto("extract", f)
      [] step = "extract" -> Goto("validate", [f EXCEPT !.data = Some(ResumeData(f.text, now))])
      [] step = "validate" ->
           IF HasMeaningfulData(f.data[1]) THEN Goto("normalize", f)
           ELSE Raise("Could not extract meaningful information from the resume", f)
      [] step = "normalize" -> Return(NormalizedRecord(f.data[1]), f)

----------------------------------------------------------------------------
(* Reconciler: cross_reference_data.  candidate_data holds, for each of     *)
(* portfolio, github and resume, None (key absent) or Some(record).  The    *)
(* portfolio record is the one parse_portfolio builds, the resume record    *)
(* the one parse_resume returns; the github record holds blog (Optional)    *)
(* and repositories, each [name, language] with language Optional.  A set   *)
(* of str is iterated in an order that depends on the process's hash seed:  *)
(* order is that order.  The outcome is [ok, value] or [ok, error] with the *)
(* exception type raised.                                                   *)

Elements(seq) == {seq[i] : i \in 1..Len(seq)}
\* candidate_data.get(source, {}).get(key, default)
SourceGet(source, key, default) ==
    IF IsSome(source) /\ key \in DOMAIN source[1] THEN source[1][key] ELSE default
\* line 110
PortfolioSkills(cd) == Elements(SourceGet(cd.portfolio, "skills", <<>>))
\* line 112, when set() accepts its argument (it raises TypeError for None)
ResumeSkills(cd) ==
    LET skills == SourceGet(cd.resume, "skills", Some(<<>>)) IN
    IF IsNone(skills) THEN {} ELSE Elements(skills[1])
\* lines 111, 115-117
GithubSkills(cd) ==
    {r.language[1] : r \in {x \in Elements(SourceGet(cd.github, "repositories", <<>>)) : Truthy(x.language)}}
\* line 120
AllSkills(cd) == PortfolioSkills(cd) \cup GithubSkills(cd) \cup ResumeSkills(cd)
\* the orders in which `for skill in all_skills` can visit the set
Orders(S) == {q \in [1..Cardinality(S) -> S] : \A i, j \in 1..Cardinality(S) : q[i] = q[j] => i = j}
\* lines 122-133; confidence is the quotient <<numerator, denominator>>
Mutant_SkillEntry(skill, cd) ==
    LET sources == <<"portfolio", "github", "resume">> IN
    [skill |-> skill, sources |-> sources, confidence |-> <<Len(sources), 3>>]
SkillEntry(skill, cd) ==
    LET sources == (IF skill \in PortfolioSkills(cd) THEN <<"portfolio">> ELSE <<>>)
                   \o (IF skill \in GithubSkills(cd) THEN <<"github">> ELSE <<>>)
                   \o (IF skill \in ResumeSkills(cd) THEN <<"resume">> ELSE <<>>)
    IN  [skill |-> skill, sources |-> sources, confidence |-> <<Len(sources), 3>>]

\* mutant: hyphens and underscores of the other source's text count as spaces
Mutant_VerifiedIn(entry, key, others, okey) ==
    \E j \in 1..Len(others) :
        Contains(Lower(entry[key][1]),
                 ReplaceAll(ReplaceAll(Lower(others[j][okey]), <<"-">>, <<" ">>), <<"_">>, <<" ">>))
\* any(e.get(okey, "").lower() in entry.get(key, "").lower() for e in others)
VerifiedIn(entry, key, others, okey) ==
    \E j \in 1..Len(others) : Contains(Lower(entry[key][1]), Lower(others[j][okey]))
\* the exception of one verification loop: others is None or Some(list)
VerifyError(entries, key, others) ==
    IF Len(entries) = 0 THEN None
    ELSE IF IsNone(others) THEN Some("TypeError")
    ELSE IF Len(others[1]) > 0 /\ \E i \in 1..Len(entries) : IsNone(entries[i][key])
    THEN Some("AttributeError")
    ELSE None
\* portfolio_contact.get(key)
ContactGet(cd, key) ==
    LET contact == SourceGet(cd.portfolio, "contact", <<>>) IN
    IF key \in DOMAIN contact THEN contact[key] ELSE None

\* cross_reference_data, lines 97-194
cross_reference_data(cd, order) ==
    LET portfolio_exp == SourceGet(cd.portfolio, "experience", <<>>)
        resume_exp == SourceGet(cd.resume, "experience", Some(<<>>))
        portfolio_edu == SourceGet(cd.portfolio, "education", <<>>)
        resume_edu == SourceGet(cd.resume, "education", Some(<<>>))
        portfolio_projects == SourceGet(cd.portfolio, "projects", <<>>)
        github_repos == SourceGet(cd.github, "repositories", <<>>)
        github_contact == SourceGet(cd.github, "blog", Some(<<>>))
        resume_email == SourceGet(cd.resume, "email", Some(<<>>))
        errors == <<IF IsNone(SourceGet(cd.resume, "skills", Some(<<>>))) THEN Some("TypeError") ELSE None,
                    VerifyError(portfolio_exp, "title", resume_exp),
                    VerifyError(portfolio_edu, "institution", resume_edu),
                    VerifyError(portfolio_projects, "title", Some(github_repos))>>
    IN
    IF \E n \in 1..4 : IsSome(errors[n])
    THEN [ok |-> FALSE, error |-> errors[Least({n \in 1..4 : IsSome(errors[n])})][1]]
    ELSE [ok |-> TRUE, value |->
           [skills_match |-> [i \in 1..Len(order) |-> SkillEntry(order[i], cd)],
            experience_verification |->
               [i \in 1..Len(portfolio_exp) |->
                   [title |-> portfolio_exp[i].title, date |-> portfolio_exp[i].date,
                    verified_in_resume |-> VerifiedIn(portfolio_exp[i], "title", resume_exp[1], "title")]],
            education_verification |->
               [i \in 1..Len(portfolio_edu) |->
                   [institution |-> portfolio_edu[i].institution, degree |-> portfolio_edu[i].degree,
                    verified_in_resume |->
                        VerifiedIn(portfolio_edu[i], "institution", resume_edu[1], "institution")]],
            contact_consistency |->
               [email |-> [portfolio |-> ContactGet(cd, "email"), resume |-> resume_email,
                           consistent |-> ContactGet(cd, "email") = resume_email],
                website |-> [portfolio |-> ContactGet(cd, "website"), github |-> github_contact,
                             consistent |-> ContactGet(cd, "website") = github_contact]],
            project_verification |->
               [i \in 1..Len(portfolio_projects) |->
                   [title |-> portfolio_projects[i].title,
                    verified_in_github |-> VerifiedIn(portfolio_projects[i], "title", github_repos, "name")]]]]

----------------------------------------------------------------------------
(* Service layer: collect_candidate_data.  The request holds, for each      *)
(* source, None or Some(parameter); resume_file is Some(upload) with the    *)
(* upload seen as parse_resume sees it.  Each collaborator (page fetch,     *)
(* GitHub client, scraper construction, profile scrape, temporary file,     *)
(* snapshot file) answers when the handler reaches it; a call that may      *)
(* raise answers [ok, value] or [ok, error].  The frame holds candidate_data *)
(* and errors (source -> None when the key is absent, else Some),           *)
(* instagram_scraper (the module's global: TRUE once constructed) and the   *)
(* sources whose branch has run (visited).                                  *)

SourceNames == <<"portfolio", "github", "instagram", "resume">>
Ok(v) == [ok |-> TRUE, value |-> v]
Failed(e) == [ok |-> FALSE, error |-> e]
\* lines 219-220 and the global of lines 50-56
CollectFrame(scraper) ==
    [candidate_data |-> [s \in Elements(SourceNames) |-> None],
     errors |-> [s \in Elements(SourceNames) |-> None],
     instagram_scraper |-> scraper, visited |-> <<>>]
Visit(f, source) == [f EXCEPT !.visited = Append(@, source)]
\* candidate_data[source] = value
SetData(f, source, value) == [f EXCEPT !.candidate_data[source] = Some(value)]
\* errors[source] = message
SetError(f, source, message) == [f EXCEPT !.errors[source] = Some(message)]

\* parse_resume, lines 409-469, run from its first step to its outcome
RECURSIVE RunResume(_, _, _, _)
RunResume(step, a, frame, now) ==
    LET next == ResumeStep(step, a, frame, now) IN
    IF next.pc \in {"done", "failed"} THEN next.ret[1]
    ELSE RunResume(next.pc, a, next.locals, now)
parse_resume(a, now) == RunResume("size", a, NewFrame, now)

\* lines 223-231: page is what fetch_with_selenium answers, its value None
\* for an empty page source
CollectPortfolio(a, f, page) ==
    IF ~Truthy(a.portfolio_url) THEN f
    ELSE IF ~page.ok THEN SetError(Visit(f, "portfolio"), "portfolio", page.error)
    ELSE IF IsSome(page.value)
    THEN SetData(Visit(f, "portfolio"), "portfolio", parse_portfolio(page.value[1], a.portfolio_url[1]))
    ELSE SetError(Visit(f, "portfolio"), "portfolio", "Could not fetch portfolio content")

\* lines 234-240: profile is what fetch_github_profile answers
CollectGithub(a, f, profile) ==
    IF ~Truthy(a.github_username) THEN f
    ELSE IF profile.ok THEN SetData(Visit(f, "github"), "github", profile.value)
    ELSE SetError(Visit(f, "github"), "github", profile.error)

\* lines 243-261: built is what InstagramScraper(rate_limit=5) answers,
\* scraped the dict scrape_profile returns
CollectInstagram(a, f, built, scraped) ==
    IF ~Truthy(a.instagram_username) THEN f
    ELSE IF ~f.instagram_scraper
    THEN IF built.ok THEN [Visit(f, "instagram") EXCEPT !.instagram_scraper = TRUE]
         ELSE SetError(Visit(f, "instagram"), "instagram", "Failed to initialize Instagram scraper")
    ELSE IF "error" \in DOMAIN scraped
    THEN SetError(Visit(f, "instagram"), "instagram", scraped.error)
    ELSE SetData(Visit(f, "instagram"), "instagram",
                 [bio |-> scraped.bio, followers |-> scraped.followers,
                  posts_count |-> scraped.posts_count])

\* lines 264-284: opened tells whether the temporary file could be written,
\* removed whether os.remove succeeded; parsed is parse_resume's outcome
CollectResume(a, f, parsed, opened, removed) ==
    IF IsNone(a.resume_file) THEN f
    ELSE IF ~(\/ EndsWith(Lower(a.resume_file[1].filename), <<".","p","d","f">>)
              \/ EndsWith(Lower(a.resume_file[1].filename), <<".","d","o","c","x">>))
    THEN SetError(Visit(f, "resume"), "resume", "Only PDF and DOCX files are supported")
    ELSE IF ~opened THEN SetError(Visit(f, "resume"), "resume", "OSError")
    ELSE LET g == IF parsed.ok THEN SetData(Visit(f, "resume"), "resume", parsed.value)
                  ELSE Visit(f, "resume")
         IN  IF ~removed THEN SetError(g, "resume", "OSError")
             ELSE IF parsed.ok THEN g
             ELSE SetError(g, "resume", parsed.error)

\* lines 296-301
CollectResponse(f, now) ==
    [status |-> "success", data |-> f.candidate_data, errors |-> f.errors, timestamp |-> now]
\* lines 303-305
CollectFailure == [status_code |-> 500]
\* line 288
CandidateSnapshotName == <<"c","a","n","d","i","d","a","t","e","_","d","a","t","a","_">>

----------------------------------------------------------------------------
(* Portfolio structurer: the contact selectors.  A page is the sequence of *)
(* its <a> and <p> elements [name, href, text] in document order;          *)
(* select_one answers the first element, in that order, that matches any   *)
(* selector of the list.                                                    *)

\* lines 325-332: the substrings the a[href*=...] selectors of a platform test
ContactHrefParts(platform) ==
    CASE platform = "linkedin" -> {<<"l","i","n","k","e","d","i","n",".","c","o","m">>}
      [] platform = "twitter" -> {<<"t","w","i","t","t","e","r",".","c","o","m">>, <<"x",".","c","o","m">>}
      [] platform = "instagram" -> {<<"i","n","s","t","a","g","r","a","m",".","c","o","m">>}
      [] platform = "github" -> {<<"g","i","t","h","u","b",".","c","o","m">>}
      [] platform = "email" -> {<<"m","a","i","l","t","o",":">>}
      [] platform = "phone" -> {<<"t","e","l",":">>}
\* lines 330-331: the text the p:contains(...) selector of a platform tests
ContactTextParts(platform) ==
    CASE platform = "email" -> {<<"@">>}
      [] platform = "phone" -> {<<"+">>}
      [] OTHER -> {}
\* elem matches the selector list of the platform
ContactMatches(platform, elem) ==
    \/ elem.name = "a" /\ IsSome(elem.href) /\ ContainsAny(elem.href[1], ContactHrefParts(platform))
    \/ elem.name = "p" /\ ContainsAny(elem.text, ContactTextParts(platform))
\* line 335: soup.select_one(selector)
ContactSelect(platform, elements) ==
    LET hits == {i \in 1..Len(elements) : ContactMatches(platform, elements[i])} IN
    IF hits = {} THEN None
    ELSE Some(elements[CHOOSE i \in hits : \A j \in hits : i <= j])
\* a page that holds nothing but the contact elements
ContactPage(elements) ==
    [name_tags |-> <<>>, title |-> None, about_tags |-> <<>>,
     paragraphs |-> [i \in 1..Len(SelectSeq(elements, LAMBDA e : e.name = "p")) |->
                        SelectSeq(elements, LAMBDA e : e.name = "p")[i].text],
     skills |-> None, experience |-> <<>>, projects |-> <<>>, education |-> <<>>,
     contact |-> [q \in ContactPlatforms |-> ContactSelect(q, elements)]]

----------------------------------------------------------------------------
(* GitHub extractor: fetch_github_profile, run request by request.  A       *)
(* response is [status, ...] or the exception the request raises; an        *)
(* exception in flight is [type, message].  The frame holds page, repos,    *)
(* page_repos (the listing being visited), i (the next entry of it) and     *)
(* contributions, which is unbound until an assignment of the events block  *)
(* has run.                                                                  *)

Exc(type, message) == [type |-> type, message |-> message]
RateLimitMessage == "Rate limit exceeded. Please try again later."
\* lines 171-176: whatever is raised inside leaves as a plain Exception
GithubWrapped(exc) ==
    IF exc.type = "ClientError"
    THEN Exc("Exception", <<"Failed to fetch GitHub profile">> \o exc.message)
    ELSE Exc("Exception", <<"An unexpected error occurred">> \o exc.message)
\* status tests of lines 45-49 and 61-63: the exception raised, None if none
StatusError(status, not_found) ==
    IF status = 404 /\ not_found THEN Some(Exc("ValueError", <<"GitHub user not found">>))
    ELSE IF status = 403 THEN Some(Exc("GitHubAPIError", <<RateLimitMessage>>))
    ELSE IF status >= 400 THEN Some(Exc("ClientError", <<"ClientResponseError">>))
    ELSE None
GithubFrame ==
    [profile_data |-> None, page |-> 1, repos |-> <<>>, page_repos |-> <<>>, i |-> 1,
     contributions |-> [bound |-> FALSE, value |-> None]]
\* lines 78-97 and 101-108: the entry appended for a listed repository
DetailedRepo(repo) == [name |-> repo.name, language |-> repo.language, keys |-> "detailed"]
BasicRepo(repo) == [name |-> repo.name, language |-> repo.language, keys |-> "basic"]
\* lines 72-108: one iteration of `for repo in page_repos`; detail is the
\* response of the per-repository request or Failed(...) when it raises
VisitRepo(repos, repo, detail) ==
    IF ~detail.ok THEN Append(repos, BasicRepo(repo))
    ELSE IF detail.value.status = 200 THEN Append(repos, DetailedRepo(repo))
    ELSE repos
\* lines 124-142: the statistics of a list of events; an event without the
\* keys its type needs raises KeyError
RECURSIVE CountEvents(_, _)
CountEvents(events, acc) ==
    IF Len(events) = 0 THEN Ok(acc)
    ELSE LET event == events[1] IN
         IF event.type = "PushEvent"
         THEN IF IsNone(event.commits) THEN Failed("KeyError")
              ELSE CountEvents(Tail(events),
                               [acc EXCEPT !.commits = @ + event.commits[1],
                                           !.repositories_contributed_to = @ \cup {event.repo}])
         ELSE IF event.type = "PullRequestEvent"
         THEN CountEvents(Tail(events),
                          [acc EXCEPT !.pull_requests = @ + 1,
                                      !.repositories_contributed_to = @ \cup {event.repo}])
         ELSE IF event.type = "IssuesEvent"
         THEN CountEvents(Tail(events),
                          [acc EXCEPT !.issues = @ + 1,
                                      !.repositories_contributed_to = @ \cup {event.repo}])
         ELSE CountEvents(Tail(events), acc)
\* lines 116-145: contributions after the events request; answer is the
\* response or Failed(...) when the request raises
EventsBlock(contributions, answer) ==
    IF ~answer.ok THEN [bound |-> TRUE, value |-> None]
    ELSE IF answer.value.status = 200
    THEN LET counted == CountEvents(answer.value.events,
                                    [commits |-> 0, pull_requests |-> 0, issues |-> 0,
                                     repositories_contributed_to |-> {}])
         IN  IF counted.ok THEN [bound |-> TRUE, value |-> Some(counted.value)]
             ELSE [bound |-> TRUE, value |-> None]
    ELSE contributions
\* lines 148-169: the profile returned, or the NameError of reading a
\* variable no assignment has bound
CompileProfile(f) ==
    IF ~f.contributions.bound
    THEN Failed(GithubWrapped(Exc("UnboundLocalError", <<"contributions">>)))
    ELSE Ok([username |-> f.profile_data[1].login, blog |-> f.profile_data[1].blog,
             repositories |-> f.repos, contributions |-> f.contributions.value])
\* main.py lines 90-105: the status get_github_profile answers with
GithubStatus(outcome) ==
    IF outcome.ok THEN 200
    ELSE IF outcome.error.type = "GitHubAPIError"
    THEN IF \E k \in 1..Len(outcome.error.message) : outcome.error.message[k] = RateLimitMessage
         THEN 429 ELSE 500
    ELSE IF outcome.error.type = "ValueError" THEN 404
    ELSE 500

----------------------------------------------------------------------------
(* Instagram scraper: scrape_profile.  The extractions answer a dict whose *)
(* bio, followers and posts_count are None or a value; the tests on them    *)
(* are Python truth tests, so 0 and "" count as nothing.                    *)

max_attempts == 3
TruthyInt(o) == IsSome(o) /\ o[1] # 0
\* the dict of the return statements of lines 299-302, 325-328, 365-375, 382-385
ScrapeError(message, now) == [error |-> message, timestamp |-> now]
\* all([...]) of line 343 and any([...]) of lines 351, 364, 371
AllData(p) == Truthy(p.bio) /\ TruthyInt(p.followers) /\ TruthyInt(p.posts_count)
AnyData(p) == Truthy(p.bio) \/ TruthyInt(p.followers) \/ TruthyInt(p.posts_count)
\* lines 340-348: the page-source extraction, completed from the elements
MergeExtractions(source, elements) ==
    IF AllData(source) THEN source
    ELSE [k \in DOMAIN source |->
            IF k \in {"bio", "followers", "posts_count"} /\ IsNone(source[k]) /\ IsSome(elements[k])
            THEN elements[k] ELSE source[k]]
\* lines 362-378: the answer after the loop
ScrapeAnswer(profile_data, private, now) ==
    IF private /\ ~AnyData(profile_data)
    THEN ScrapeError(<<"P","r","o","f","i","l","e"," ","i","s"," ","p","r","i","v","a","t","e">>, now)
    ELSE IF ~AnyData(profile_data)
    THEN ScrapeError(<<"C","o","u","l","d"," ","n","o","t"," ","e","x","t","r","a","c","t"," ","p","r","o","f","i","l","e"," ","d","a","t","a"," ","-"," ","I","n","s","t","a","g","r","a","m"," ","m","a","y"," ","b","e"," ","b","l","o","c","k","i","n","g"," ","a","u","t","o","m","a","t","e","d"," ","a","c","c","e","s","s">>, now)
    ELSE profile_data
\* lines 380-385
ScrapeFailure(text, now) ==
    ScrapeError(<<"E","r","r","o","r"," ","s","c","r","a","p","i","n","g"," ","p","r","o","f","i","l","e",":"," ">> \o text, now)

----------------------------------------------------------------------------
(* Service layer: the endpoint handlers of GET /instagram/{username} and   *)
(* POST /resume/upload.  An HTTPException is [type, status_code, detail];   *)
(* it derives from Exception, so an `except Exception` clause catches it.   *)
(* The response carries the status of the HTTPException that leaves the     *)
(* handler, 200 when the handler returns.                                   *)

HTTPException(status_code, detail) ==
    [type |-> "HTTPException", status_code |-> status_code, detail |-> detail]
ResponseStatus(outcome) == IF outcome.ok THEN 200 ELSE outcome.error.status_code
\* main.py lines 125-138: the try body of get_instagram_profile
InstagramTry(profile_data, now) ==
    IF "error" \in DOMAIN profile_data
    THEN Failed(HTTPException(
            IF Contains(Lower(profile_data.error), <<"n","o","t"," ","f","o","u","n","d">>)
            THEN 404 ELSE 500,
            profile_data.error))
    ELSE Ok([status |-> "success",
             data |-> [bio |-> profile_data.bio, followers |-> profile_data.followers,
                       posts_count |-> profile_data.posts_count],
             timestamp |-> now])
\* main.py lines 140-142: `except Exception` around the try body; str(e) of
\* an HTTPException names its status and its detail
InstagramExcept(tried) ==
    IF tried.ok THEN tried
    ELSE Failed(HTTPException(500, <<tried.error.status_code, tried.error.detail>>))
\* main.py lines 108-142; built is the outcome of InstagramScraper(...)
get_instagram_profile(scraper, built, profile_data, now) ==
    IF ~scraper /\ ~built.ok
    THEN Failed(HTTPException(500, "Failed to initialize Instagram scraper"))
    ELSE InstagramExcept(InstagramTry(profile_data, now))
\* main.py line 150
SupportedName(filename) ==
    \/ EndsWith(Lower(filename), <<".","p","d","f">>)
    \/ EndsWith(Lower(filename), <<".","d","o","c","x">>)
\* main.py lines 150-170: the try body of upload_resume; opened tells whether
\* the temporary file could be written, removed whether os.remove succeeded,
\* parsed is parse_resume's outcome
UploadTry(file, parsed, opened, removed, now) ==
    IF ~SupportedName(file.filename)
    THEN Failed(HTTPException(400, "Only PDF and DOCX files are supported"))
    ELSE IF ~opened \/ ~removed THEN Failed(Exc("OSError", <<"OSError">>))
    ELSE IF parsed.ok
    THEN Ok([status |-> "success", data |-> parsed.value, timestamp |-> now])
    ELSE Failed(Exc("ResumeParserError", parsed.error))
\* main.py lines 172-177: the except clauses, in order
UploadExcept(tried) ==
    IF tried.ok THEN tried
    ELSE IF tried.error.type = "ResumeParserError"
    THEN Failed(HTTPException(400, tried.error.message))
    ELSE IF tried.error.type = "HTTPException"
    THEN Failed(HTTPException(500, <<tried.error.status_code, tried.error.detail>>))
    ELSE Failed(HTTPException(500, tried.error.message))
\* main.py lines 144-177
upload_resume(file, parsed, opened, removed, now) ==
    UploadExcept(UploadTry(file, parsed, opened, removed, now))


----------------------------------------------------------------------------
(* Bounded string inputs *)

MaxLen == 3
RECURSIVE SeqsUpTo(_, _)
SeqsUpTo(S, n) ==
    IF n = 0 THEN {<<>>}
    ELSE LET shorter == SeqsUpTo(S, n - 1)
         IN  shorter \cup {Append(q, x) : q \in shorter, x \in S}
NormStrings == SeqsUpTo({"a", "&", " ", "\n"}, MaxLen)

----------------------------------------------------------------------------
(* Calls of the two normalizers on every bounded string *)

InitNorm ==
    /\ pc = "call"
    /\ \/ fn = "clean_text" /\ arg \in {None} \cup {Some(s) : s \in NormStrings}
       \/ fn = "resume_clean_text" /\ arg \in NormStrings
    /\ ret = None
    /\ WorldIdle

CallCleanText ==
    /\ pc = "call" /\ fn = "clean_text"
    /\ ret' = clean_text(arg)
    /\ pc' = "done"
    /\ UNCHANGED <<fn, arg, world>>

CallResumeCleanText ==
    /\ pc = "call" /\ fn = "resume_clean_text"
    /\ ret' = resume_clean_text(arg)
    /\ pc' = "done"
    /\ UNCHANGED <<fn, arg, world>>

NextNorm == CallCleanText \/ CallResumeCleanText
SpecNorm == InitNorm /\ [][NextNorm]_vars

----------------------------------------------------------------------------
(* Calls of extract_list_from_tags: two selectors whose matches are drawn  *)
(* from a few elements, so that one element can be matched by both.        *)

MaxMatches == 3
ListElements == {
    [name |-> "span", text |-> <<"G","o">>, alt |-> None, title |-> None],
    [name |-> "li", text |-> <<"G","o",","," ","R","u","s","t",",","G","o">>, alt |-> None, title |-> None],
    [name |-> "img", text |-> <<>>, alt |-> Some(<<" ","G","o"," ">>), title |-> None],
    [name |-> "span", text |-> <<"R","u","s","t"," ",","," ","i","c","o","n">>, alt |-> None, title |-> None],
    [name |-> "li", text |-> <<"a"," ","b"," ","c"," ","d"," ","e"," ","f">>, alt |-> None, title |-> None],
    [name |-> "span", text |-> <<>>, alt |-> None, title |-> Some(<<"R","u","s","t">>)] }
\* what soup.select returns for the first and for the second selector
ListSelections ==
    UNION {{<<SubSeq(q, 1, k), SubSeq(q, k + 1, Len(q))>> : k \in 0..Len(q)} :
              q \in SeqsUpTo(ListElements, MaxMatches)}

InitList ==
    /\ pc = "call"
    /\ fn = "extract_list_from_tags"
    /\ arg \in [selected : ListSelections, separator : {<<",">>}]
    /\ ret = None
    /\ WorldIdle

CallExtractList ==
    /\ pc = "call" /\ fn = "extract_list_from_tags"
    /\ ret' = extract_list_from_tags(arg.selected, arg.separator)
    /\ pc' = "done"
    /\ UNCHANGED <<fn, arg, world>>

SpecList == InitList /\ [][CallExtractList]_vars

----------------------------------------------------------------------------
(* Calls of parse_portfolio on pages assembled from a few zone contents    *)

PortfolioUrl == <<"h","t","t","p","s",":","/","/","m","e",".","d","e","v","/">>
Repeat(c, n) == [i \in 1..n |-> c]
PortfolioBodies == {
    [skills |-> None, experience |-> <<>>, projects |-> <<>>, education |-> <<>>],
    [skills |-> Some(<<<<[name |-> "span", text |-> <<"G","o">>, alt |-> None, title |-> None], [name |-> "li", text |-> <<"G","o",","," ","R","u","s","t",",","G","o">>, alt |-> None, title |-> None]>>, <<[name |-> "span", text |-> <<"G","o">>, alt |-> None, title |-> None]>>>>),
      experience |-> <<[first |-> ("h3" :> <<"D","e","v">> @@ "h4" :> <<"A","c","m","e"," "," ","C","o","r","p">> @@ "span" :> <<"2","0","2","0">>), items |-> <<<<"b","u","i","l","t"," ","x">>, <<" ">>>>, href |-> <<>>], [first |-> ("h3" :> <<" ">>), items |-> <<>>, href |-> <<>>]>>,
      projects |-> <<[first |-> ("h3" :> <<"T","o","d","o">> @@ "p" :> <<"A"," ","l","i","s","t">>), items |-> <<>>, href |-> ("a.live-demo" :> <<"d","e","m","o">>)]>>,
      education |-> <<[first |-> ("span" :> <<"2","0","1","5","-","2","0","1","9">> @@ "h4" :> <<"M","I","T">> @@ "h5" :> <<"B","S","c">>), items |-> <<>>, href |-> <<>>]>>],
    [skills |-> Some(<<<<>>, <<>>>>),
      experience |-> <<[first |-> <<>>, items |-> <<<<"l","e","d"," ","y">>>>, href |-> <<>>]>>,
      projects |-> <<[first |-> ("h3" :> <<"T","o","d","o">>), items |-> <<>>, href |-> ("a[href*=github.com]" :> <<"h","t","t","p","s",":","/","/","g","i","t","h","u","b",".","c","o","m","/","a","/","t">>)], [first |-> ("h3" :> <<"B","l","o","g">>), items |-> <<>>, href |-> ("a.view-details" :> <<"m","a","i","l","t","o",":">>)]>>,
      education |-> <<[first |-> ("h3" :> <<"M","I","T">>), items |-> <<>>, href |-> <<>>]>>] }
PortfolioEmails == {None,
    Some([name |-> "a", href |-> Some(<<"m","a","i","l","t","o",":","a","@","b",".","c","o">>), text |-> <<"E","m","a","i","l">>]),
    Some([name |-> "a", href |-> Some(<<"m","a","i","l","t","o",":">>), text |-> <<"E","m","a","i","l">>]),
    Some([name |-> "p", href |-> None, text |-> <<"m","e",":"," "," ","a","@","b",".","c","o">>]) }
PortfolioPhones == {None, Some([name |-> "a", href |-> Some(<<"t","e","l",":">>), text |-> <<"C","a","l","l">>])}
PortfolioDocs ==
    {[name_tags |-> n, title |-> t, about_tags |-> a, paragraphs |-> p,
      skills |-> b.skills, experience |-> b.experience, projects |-> b.projects,
      education |-> b.education,
      contact |-> [q \in ContactPlatforms |->
                      CASE q = "email" -> e [] q = "phone" -> ph
                        [] q = "github" -> IF IsSome(ph) THEN Some([name |-> "a", href |-> Some(<<"h","t","t","p","s",":","/","/","g","i","t","h","u","b",".","c","o","m","/","a","n","n">>), text |-> <<"G","i","t","H","u","b">>]) ELSE None
                        [] OTHER -> None]] :
        n \in {<<>>, <<<<"A","n","n"," "," ","L","e","e">>>>, <<Repeat("a", 99), <<"b">>>>},
        t \in {None, Some(<<" ","|"," ","D","e","v">>), Some(<<"A","n","n"," ","L","e","e"," ","|"," ","D","e","v">>)},
        a \in {<<>>, <<<<"H","i",","," "," ","I"," ","a","m"," ","A","n","n">>>>},
        p \in {<<>>, <<Repeat(" ", 101)>>, <<<<"s","h","o","r","t">>, Repeat("b", 101)>>},
        b \in PortfolioBodies, e \in PortfolioEmails, ph \in PortfolioPhones}

InitPortfolio ==
    /\ pc = "call"
    /\ fn = "parse_portfolio"
    /\ arg \in [doc : PortfolioDocs, url : {PortfolioUrl}]
    /\ ret = None
    /\ WorldIdle

\* lines 224-360; writing the snapshot may fail, which is logged and ignored
CallParsePortfolio ==
    /\ pc = "call" /\ fn = "parse_portfolio"
    /\ ret' = parse_portfolio(arg.doc, arg.url)
    /\ \/ files' = Append(files, [name |-> SnapshotName(arg.url), data |-> ret'])
       \/ files' = files
    /\ pc' = "done"
    /\ UNCHANGED <<fn, arg, locals, clock, history>>

SpecPortfolio == InitPortfolio /\ [][CallParsePortfolio]_vars

----------------------------------------------------------------------------
(* Runs of the four line scans.  The text is read line by line; each line  *)
(* is drawn when the loop reaches it, and the text may end after any line. *)

MaxLines == 6
ScanCatalogue == {
    <<"S","e","n","i","o","r"," ","E","n","g","i","n","e","e","r">>,
    <<"B",".","T","e","c","h"," ","&"," ","C","S">>,
    <<"T","o","d","o"," ","A","p","p"," ","P","r","o","j","e","c","t">>,
    <<"A","W","S"," ","C","e","r","t","i","f","i","e","d">>,
    <<"-"," ","b","u","i","l","t"," ","a","p","i">>,
    <<"2","0","1","9"," ","-"," ","2","0","2","3">> }

InitScan ==
    /\ pc = "scan"
    /\ fn \in ScanKinds
    /\ arg = None
    /\ ret = None
    /\ locals = [st |-> ScanStart, n |-> 0, line |-> <<>>]
    /\ clock = 0 /\ files = <<>> /\ history = <<>>

\* one iteration of `for line in lines`
ScanReadLine ==
    /\ pc = "scan"
    /\ locals.n < MaxLines
    /\ \E raw \in ScanCatalogue :
          locals' = [st |-> ScanLine(fn, locals.st, raw), n |-> locals.n + 1, line |-> raw]
    /\ UNCHANGED <<pc, fn, arg, ret, clock, files, history>>

\* the end of the text: last flush, cap, return
ScanReturn ==
    /\ pc = "scan"
    /\ ret' = ScanResult(locals.st)
    /\ pc' = "done"
    /\ UNCHANGED <<fn, arg, locals, clock, files, history>>

NextScan == ScanReadLine \/ ScanReturn
SpecScan == InitScan /\ [][NextScan]_vars

----------------------------------------------------------------------------
(* Calls of parse_resume.  One upload is parsed MaxCalls times while the    *)
(* wall clock advances at any moment; history keeps what each call handed   *)
(* back.                                                                    *)

MaxCalls == 2
MaxClock == 2
ResumeSizes == {0, 5, 99, 100, 101, 10485759, 10485760, 10485761}
ResumeFilenames == {<<"c","v",".","p","d","f">>, <<"C","V",".","D","O","C","X">>, <<"c","v",".","t","x","t">>, <<"p","d","f">>}
DocFull ==
    <<<<"J","a","n","e"," ","R","o","e","\n","j","a","n","e","@","r","o","e",".","d","e","v","\n","+","1"," ","4","1","5"," ","5","5","5"," ","2","6","7","1">>,
      <<"B",".","T","e","c","h"," ","&"," ","C","S","\n","M","I","T"," ","U","n","i","v","e","r","s","i","t","y","\n","2","0","1","9"," ","-"," ","2","0","2","3","\n","G","P","A",":"," ","3",".","8">>,
      <<"S","e","n","i","o","r"," ","E","n","g","i","n","e","e","r","\n","A","c","m","e"," ","C","o","r","p","\n","2","0","1","9"," ","-"," ","2","0","2","3","\n","-"," ","b","u","i","l","t"," ","a","p","i">>,
      <<"S","k","i","l","l","e","d"," ","i","n"," ","P","y","t","h","o","n"," ","a","n","d"," ","G","o">>>>
DocSparse ==
    <<<<"B",".","T","e","c","h"," ","&"," ","C","S">>,
      <<"S","e","n","i","o","r"," ","E","n","g","i","n","e","e","r">>,
      <<"T","o","d","o"," ","A","p","p"," ","P","r","o","j","e","c","t">>,
      <<" ","A","W","S"," ","C","e","r","t","i","f","i","e","d"," "," ","D","e","v","e","l","o","p","e","r">>,
      <<"g","i","t","h","u","b",".","c","o","m","/","j","a","n","e","r","o","e">>>>
DocContact == <<<<"C","o","n","t","a","c","t",":"," ","j","a","n","e","@","r","o","e",".","d","e","v"," ","o","r"," ","c","a","l","l"," ","4","1","5","-","5","5","5","-","2","6","7","1"," ","a","n","y"," ","t","i","m","e">>>>
DocPlain == <<<<"l","o","r","e","m"," ","i","p","s","u","m"," ","d","o","l","o","r"," ","s","i","t"," ","a","m","e","t"," ","c","o","n","s","e","c","t","e","t","u","r"," ","a","d","i","p","i","s","c","i","n","g"," ","e","l","i","t">>>>
\* a text in which no extractor finds anything
DocEmpty == <<<<"t","h","e"," ","q","u","i","c","k"," ","b","r","o","w","n"," ","f","o","x"," ","j","u","m","p","s"," ","o","v","e","r"," ","t","h","e"," ","l","a","z","y"," ","d","o","g"," ","a","n","d"," ","r","u","n","s"," ","o","f","f">>>>
\* a text that holds a portfolio URL and an Instagram handle and nothing else
DocLinks == <<<<"f","i","n","d"," ","o","u","r"," ","w","o","r","k"," ","a","t"," ","w","w","w",".","z","e","d","-","p","o","r","t","f","o","l","i","o",".","x","y","z"," ","o","r"," ","f","o","l","l","o","w"," ","u","s"," ","o","n"," ","i","n","s","t","a","g","r","a","m",".","c","o","m","/","z","e","d">>>>
ResumeDocs ==
    {None, Some(<<>>), Some(<<<<"J","a","n","e"," ","R","o","e">>>>), Some(<<Repeat(" ", 50) \o <<"x">>, <<" ">>>>),
     Some(DocPlain), Some(DocFull), Some(DocSparse), Some(DocContact), Some(DocEmpty), Some(DocLinks)}
\* every size and every filename with one document, every document as pdf, some as docx
ResumeUploads ==
    {[size |-> n, filename |-> <<"c","v",".","p","d","f">>, doc |-> Some(DocContact)] : n \in ResumeSizes}
    \cup {[size |-> 4096, filename |-> f, doc |-> Some(DocContact)] : f \in ResumeFilenames}
    \cup {[size |-> 4096, filename |-> <<"c","v",".","p","d","f">>, doc |-> d] : d \in ResumeDocs}
    \cup {[size |-> 4096, filename |-> <<"C","V",".","D","O","C","X">>, doc |-> d] :
             d \in {None, Some(<<Repeat(" ", 50) \o <<"x">>, <<" ">>>>), Some(DocSparse)}}

InitResume ==
    /\ pc = "idle"
    /\ fn = "parse_resume"
    /\ arg \in ResumeUploads
    /\ ret = None
    /\ locals = NewFrame
    /\ clock = 0 /\ files = <<>> /\ history = <<>>

\* the caller calls parse_resume(content, filename)
ResumeCall ==
    /\ pc = "idle"
    /\ Len(history) < MaxCalls
    /\ pc' = "size" /\ locals' = NewFrame /\ ret' = None
    /\ UNCHANGED <<fn, arg, clock, files, history>>

\* one step of the body of parse_resume
ResumeRun ==
    /\ pc \in {"size", "kind", "decode", "length", "extract", "validate", "normalize"}
    /\ LET next == ResumeStep(pc, arg, locals, clock) IN
          pc' = next.pc /\ locals' = next.locals /\ ret' = next.ret
    /\ UNCHANGED <<fn, arg, clock, files, history>>

\* the call hands its record or its error back
ResumeReturn ==
    /\ pc \in {"done", "failed"}
    /\ history' = Append(history, ret[1])
    /\ pc' = "idle"
    /\ UNCHANGED <<fn, arg, ret, locals, clock, files>>

\* time passes
Tick ==
    /\ clock < MaxClock
    /\ clock' = clock + 1
    /\ UNCHANGED <<pc, fn, arg, ret, locals, files, history>>

NextResume == ResumeCall \/ ResumeRun \/ ResumeReturn \/ Tick
SpecResume == InitResume /\ [][NextResume]_vars

----------------------------------------------------------------------------
(* Calls of cross_reference_data on records the structurers produce.        *)

XrefPage(body, email) ==
    [name_tags |-> <<>>, title |-> None, about_tags |-> <<>>, paragraphs |-> <<>>,
     skills |-> body.skills, experience |-> body.experience, projects |-> body.projects,
     education |-> body.education,
     contact |-> [q \in ContactPlatforms |-> IF q = "email" THEN email ELSE None]]
\* a page whose entries name what the resume DocFull and the repository
\* task-manager name
XrefTaskBody ==
    [skills |-> None,
     experience |-> <<[first |-> ("h3" :> <<"S","e","n","i","o","r"," ","E","n","g","i","n","e","e","r"," ","I","I">>), items |-> <<>>, href |-> <<>>]>>,
     projects |-> <<[first |-> ("h3" :> <<"T","a","s","k"," ","M","a","n","a","g","e","r"," ","A","p","p">>), items |-> <<>>, href |-> <<>>]>>,
     education |-> <<[first |-> ("h4" :> <<"M","I","T"," ","U","n","i","v","e","r","s","i","t","y",","," ","C","a","m","b","r","i","d","g","e">>), items |-> <<>>, href |-> <<>>]>>]
XrefPortfolios ==
    {None} \cup {Some(parse_portfolio(XrefPage(b, e), PortfolioUrl)) :
                    b \in PortfolioBodies \cup {XrefTaskBody}, e \in {x \in PortfolioEmails : IsNone(x) \/ Len(x[1].text) = 5}}
XrefGithubs ==
    {None,
     Some([blog |-> Some(<<>>), repositories |-> <<>>]),
     Some([blog |-> None, repositories |-> <<[name |-> <<"t","o","d","o">>, language |-> Some(<<"G","o">>)],
                                             [name |-> <<"d","o","t","f","i","l","e","s">>, language |-> None]>>]),
     Some([blog |-> Some(<<>>), repositories |-> <<[name |-> <<"t","a","s","k","-","m","a","n","a","g","e","r">>, language |-> Some(<<"G","o">>)]>>]),
     Some([blog |-> Some(PortfolioUrl),
           repositories |-> <<[name |-> <<"a","p","i">>, language |-> Some(<<"P","y","t","h","o","n">>)],
                              [name |-> <<"b","l","o","g">>, language |-> Some(<<"G","o">>)]>>])}
\* the records parse_resume returns for the documents it accepts
XrefResumes ==
    {None} \cup {Some(NormalizedRecord(ResumeData(extract_text_from_pdf(Some(d))[1], 0))) :
                    d \in {DocFull, DocSparse, DocContact}}

InitXref ==
    /\ pc = "call"
    /\ fn = "cross_reference_data"
    /\ arg \in [portfolio : XrefPortfolios, github : XrefGithubs, resume : XrefResumes]
    /\ ret = None
    /\ WorldIdle

CallCrossReference ==
    /\ pc = "call" /\ fn = "cross_reference_data"
    /\ \E order \in Orders(AllSkills(arg)) : ret' = cross_reference_data(arg, order)
    /\ pc' = "done"
    /\ UNCHANGED <<fn, arg, world>>

SpecXref == InitXref /\ [][CallCrossReference]_vars

----------------------------------------------------------------------------
(* Requests to collect_candidate_data.  Every subset of the four sources   *)
(* is requested, with the scraper constructed at import time or not; each   *)
(* collaborator's answer is drawn when the handler reaches it.              *)

CollectUrl == PortfolioUrl
CollectPages ==
    {Failed("Failed to fetch URL for portfolio"), Ok(None),
     Ok(Some(XrefPage(CHOOSE b \in PortfolioBodies : IsSome(b.skills) /\ Len(b.experience) > 0 /\ "h3" \in DOMAIN b.experience[1].first, None)))}
CollectProfiles ==
    {Failed("An unexpected error occurred"),
     Ok([blog |-> None, repositories |-> <<[name |-> <<"t","o","d","o">>, language |-> Some(<<"G","o">>)]>>])}
CollectBuilds == {Failed("RuntimeError"), Ok(TRUE)}
CollectScrapes ==
    {[error |-> "Profile not found", timestamp |-> 0],
     [bio |-> Some(<<"h","i">>), followers |-> Some(<<"1","2">>), posts_count |-> None,
      username |-> <<"z","e","d">>, timestamp |-> 0]}
CollectUploads ==
    {[size |-> 4096, filename |-> <<"c","v",".","p","d","f">>, doc |-> Some(DocContact)],
     [size |-> 4096, filename |-> <<"C","V",".","D","O","C","X">>, doc |-> None],
     [size |-> 4096, filename |-> <<"c","v",".","t","x","t">>, doc |-> Some(DocContact)]}
CollectRequests ==
    [portfolio_url : {None, Some(CollectUrl)},
     github_username : {None, Some(<<"z","e","d">>)},
     instagram_username : {None, Some(<<"z","e","d">>)},
     resume_file : {None} \cup {Some(u) : u \in CollectUploads}]

InitCollect ==
    /\ pc = "portfolio"
    /\ fn = "collect_candidate_data"
    /\ arg \in CollectRequests
    /\ ret = None
    /\ locals \in {CollectFrame(scraper) : scraper \in BOOLEAN}
    /\ clock = 0 /\ files = <<>> /\ history = <<>>

HandlePortfolio ==
    /\ pc = "portfolio" /\ fn = "collect_candidate_data"
    /\ \E page \in CollectPages : locals' = CollectPortfolio(arg, locals, page)
    /\ pc' = "github"
    /\ UNCHANGED <<fn, arg, ret, clock, files, history>>

HandleGithub ==
    /\ pc = "github" /\ fn = "collect_candidate_data"
    /\ \E profile \in CollectProfiles : locals' = CollectGithub(arg, locals, profile)
    /\ pc' = "instagram"
    /\ UNCHANGED <<fn, arg, ret, clock, files, history>>

HandleInstagram ==
    /\ pc = "instagram" /\ fn = "collect_candidate_data"
    /\ \E built \in CollectBuilds, scraped \in CollectScrapes :
          locals' = CollectInstagram(arg, locals, built, scraped)
    /\ pc' = "resume"
    /\ UNCHANGED <<fn, arg, ret, clock, files, history>>

HandleResume ==
    /\ pc = "resume" /\ fn = "collect_candidate_data"
    /\ \E parsed \in {IF IsSome(arg.resume_file) THEN parse_resume(arg.resume_file[1], clock)
                      ELSE Failed("")},
          opened, removed \in BOOLEAN :
          locals' = CollectResume(arg, locals, parsed, opened, removed)
    /\ pc' = "save"
    /\ UNCHANGED <<fn, arg, ret, clock, files, history>>

\* lines 287-305: the snapshot is written and the response returned, or the
\* write raises and the handler answers 500
HandleSave ==
    /\ pc = "save" /\ fn = "collect_candidate_data"
    /\ \/ /\ files' = Append(files, [name |-> CandidateSnapshotName,
                                     data |-> [candidate_data |-> locals.candidate_data,
                                               errors |-> locals.errors, timestamp |-> clock]])
          /\ ret' = Some(Ok(CollectResponse(locals, clock)))
          /\ pc' = "done"
       \/ /\ files' = files
          /\ ret' = Some(Failed(CollectFailure))
          /\ pc' = "failed"
    /\ UNCHANGED <<fn, arg, locals, clock, history>>

NextCollect == HandlePortfolio \/ HandleGithub \/ HandleInstagram \/ HandleResume \/ HandleSave
SpecCollect == InitCollect /\ [][NextCollect]_vars

----------------------------------------------------------------------------
(* Calls of extract_skills on texts of a few words: vocabulary tokens,      *)
(* words that contain a token as a fragment, and a context phrase.          *)

MaxWords == 3
SkillWords == {<<"p","r","o","f","i","c","i","e","n","t"," ","i","n">>, <<"p","y","t","h","o","n","i","c">>, <<"G","o">>, <<"j","a","v","a">>, <<"c","a","r","g","o">>}
SkillTexts == {Join(ws, <<" ">>) : ws \in SeqsUpTo(SkillWords, MaxWords)}

InitSkills ==
    /\ pc = "call"
    /\ fn = "extract_skills"
    /\ arg \in SkillTexts
    /\ ret = None
    /\ WorldIdle

CallExtractSkills ==
    /\ pc = "call" /\ fn = "extract_skills"
    /\ ret' = extract_skills(arg)
    /\ pc' = "done"
    /\ UNCHANGED <<fn, arg, world>>

SpecSkills == InitSkills /\ [][CallExtractSkills]_vars

----------------------------------------------------------------------------
(* Calls of extract_phone on texts assembled from a few pieces: digit runs, *)
(* a plus sign, separators, a parenthesized area code and a letter.         *)

MaxPieces == 3
PhonePieces == {<<"+">>, <<"1","2","3"," ","4","5">>, <<"6","7","8","9">>, <<"0">>, <<" ">>, <<"(","4","1","5",")">>, <<"5","5","5","-","2","6","7","1">>, <<"x">>}
RECURSIVE Concat(_)
Concat(parts) == IF Len(parts) = 0 THEN <<>> ELSE parts[1] \o Concat(Tail(parts))
PhoneTexts == {Concat(ps) : ps \in SeqsUpTo(PhonePieces, MaxPieces)}

InitPhone ==
    /\ pc = "call"
    /\ fn = "extract_phone"
    /\ arg \in PhoneTexts
    /\ ret = None
    /\ WorldIdle

CallExtractPhone ==
    /\ pc = "call" /\ fn = "extract_phone"
    /\ ret' = extract_phone(arg)
    /\ pc' = "done"
    /\ UNCHANGED <<fn, arg, world>>

SpecPhone == InitPhone /\ [][CallExtractPhone]_vars

----------------------------------------------------------------------------
(* Calls of extract_portfolio_url on texts assembled from a label, URLs of  *)
(* a personal site, of a listed host and of GitHub, and a plain word.       *)

MaxParts == 3
UrlParts == {<<"P","o","r","t","f","o","l","i","o",":"," ">>, <<"h","t","t","p","s",":","/","/","M","e",".","D","e","v","/","A"," ">>, <<"w","w","w",".","x",".","v","e","r","c","e","l",".","a","p","p"," ">>, <<"h","t","t","p","s",":","/","/","g","i","t","h","u","b",".","c","o","m","/","u"," ">>, <<"s","e","e"," ">>}
UrlTexts == {Concat(ps) : ps \in SeqsUpTo(UrlParts, MaxParts)}

InitUrl ==
    /\ pc = "call"
    /\ fn = "extract_portfolio_url"
    /\ arg \in UrlTexts
    /\ ret = None
    /\ WorldIdle

CallExtractPortfolioUrl ==
    /\ pc = "call" /\ fn = "extract_portfolio_url"
    /\ ret' = extract_portfolio_url(arg)
    /\ pc' = "done"
    /\ UNCHANGED <<fn, arg, world>>

SpecUrl == InitUrl /\ [][CallExtractPortfolioUrl]_vars

----------------------------------------------------------------------------
(* Runs of the education and experience scans on lines that compete for   *)
(* the same slot: two institutions, two year ranges, a company.             *)

MaxSlotLines == 4
SlotCatalogue == {<<"S","e","n","i","o","r"," ","E","n","g","i","n","e","e","r">>,
    <<"B",".","T","e","c","h"," ","&"," ","C","S">>,
    <<"A","c","m","e"," ","C","o","r","p">>,
    <<"M","I","T"," ","U","n","i","v","e","r","s","i","t","y">>,
    <<"S","t","a","n","f","o","r","d"," ","C","o","l","l","e","g","e">>,
    <<"2","0","1","9"," ","-"," ","2","0","2","3">>,
    <<"2","0","2","1"," ","-"," ","p","r","e","s","e","n","t">>,
    <<"l","e","a","d","@","a","c","m","e",".","i","o">>,
    <<"c","a","l","l"," ","4","1","5","5","5","5","2","6","7","1">>}

InitSlots ==
    /\ pc = "scan"
    /\ fn \in {"extract_education", "extract_experience"}
    /\ arg = None
    /\ ret = None
    /\ locals = [st |-> ScanStart, n |-> 0, line |-> <<>>]
    /\ clock = 0 /\ files = <<>> /\ history = <<>>

\* one iteration of `for line in lines`
SlotReadLine ==
    /\ pc = "scan"
    /\ locals.n < MaxSlotLines
    /\ \E raw \in SlotCatalogue :
          locals' = [st |-> ScanLine(fn, locals.st, raw), n |-> locals.n + 1, line |-> raw]
    /\ UNCHANGED <<pc, fn, arg, ret, clock, files, history>>

\* the end of the text: last flush, cap, return
SlotReturn ==
    /\ pc = "scan"
    /\ ret' = ScanResult(locals.st)
    /\ pc' = "done"
    /\ UNCHANGED <<fn, arg, locals, clock, files, history>>

NextSlots == SlotReadLine \/ SlotReturn
SpecSlots == InitSlots /\ [][NextSlots]_vars

----------------------------------------------------------------------------
(* Calls of parse_portfolio on pages made of contact links and paragraphs  *)

MaxElems == 3
ContactElements == {
    [name |-> "a", href |-> Some(<<"m","a","i","l","t","o",":","a","@","b",".","c","o","m">>), text |-> <<"E","m","a","i","l">>],
    [name |-> "a", href |-> Some(<<"t","e","l",":","+","1","5","5","5">>), text |-> <<"C","a","l","l">>],
    [name |-> "p", href |-> None, text |-> <<"W","r","i","t","e"," ","t","o"," "," ","x","@","y",".","i","o">>],
    [name |-> "p", href |-> None, text |-> <<"C","+","+"," ","f","a","n">>],
    [name |-> "a", href |-> Some(<<"h","t","t","p","s",":","/","/","g","i","t","h","u","b",".","c","o","m","/","a","n","n">>), text |-> <<"G","i","t","H","u","b">>] }

InitContact ==
    /\ pc = "call"
    /\ fn = "parse_portfolio"
    /\ arg \in [elements : SeqsUpTo(ContactElements, MaxElems), url : {PortfolioUrl}]
    /\ ret = None
    /\ WorldIdle

\* lines 224-360 on a page of contact elements
CallParseContact ==
    /\ pc = "call" /\ fn = "parse_portfolio"
    /\ ret' = parse_portfolio(ContactPage(arg.elements), arg.url)
    /\ \/ files' = Append(files, [name |-> SnapshotName(arg.url), data |-> ret'])
       \/ files' = files
    /\ pc' = "done"
    /\ UNCHANGED <<fn, arg, locals, clock, history>>

SpecContact == InitContact /\ [][CallParseContact]_vars

----------------------------------------------------------------------------
(* Calls of extract_instagram_username on texts assembled from an email    *)
(* address, an @mention, a profile URL and plain words.                     *)

MaxMentions == 3
MentionParts == {<<"m","a","i","l"," ","j","a","n","e","@","r","o","e",".","d","e","v"," ">>, <<"@","z","e","d"," ">>, <<"I","n","s","t","a","g","r","a","m",".","c","o","m","/","Z","e","d","_","1"," ">>, <<"s","e","e"," ">>, <<"@"," ">>}
MentionTexts == {Concat(ps) : ps \in SeqsUpTo(MentionParts, MaxMentions)}

InitMention ==
    /\ pc = "call"
    /\ fn = "extract_instagram_username"
    /\ arg \in MentionTexts
    /\ ret = None
    /\ WorldIdle

CallExtractInstagramUsername ==
    /\ pc = "call" /\ fn = "extract_instagram_username"
    /\ ret' = extract_instagram_username(arg)
    /\ pc' = "done"
    /\ UNCHANGED <<fn, arg, world>>

SpecMention == InitMention /\ [][CallExtractInstagramUsername]_vars

----------------------------------------------------------------------------
(* Calls of the endpoint GET /github/{username}: fetch_github_profile runs  *)
(* request by request, each answer drawn when the request is made, and the  *)
(* handler turns the outcome into a response.  history lists the requests   *)
(* made with their answers.  PerPage stands for the page size, 100 in the   *)
(* code; MaxPages caps the number of full pages GitHub answers with.        *)

PerPage == 2
MaxPages == 2
GithubUser == <<"z","e","d">>
ConnectionError == Failed(Exc("ClientError", <<"ClientConnectorError">>))
ProfileAnswers ==
    {ConnectionError} \cup
    {Ok([status |-> s, body |-> [login |-> GithubUser, blog |-> None]]) : s \in {200, 403, 404, 500}}
\* the listing of a page: n repositories named by page and position
Listing(page, n) ==
    [k \in 1..n |-> [name |-> <<page, k>>, language |-> IF k = 1 THEN Some(<<"G","o">>) ELSE None]]
DetailAnswers == {ConnectionError} \cup {Ok([status |-> s]) : s \in {200, 404}}
EventLists ==
    {<<>>,
     <<[type |-> "PushEvent", commits |-> Some(2), repo |-> "zed/a"],
       [type |-> "PullRequestEvent", commits |-> None, repo |-> "zed/a"],
       [type |-> "IssuesEvent", commits |-> None, repo |-> "zed/b"],
       [type |-> "WatchEvent", commits |-> None, repo |-> "zed/c"]>>,
     <<[type |-> "PushEvent", commits |-> None, repo |-> "zed/a"]>>}
EventAnswers ==
    {ConnectionError} \cup {Ok([status |-> 200, events |-> e]) : e \in EventLists}
    \cup {Ok([status |-> s, events |-> <<>>]) : s \in {403, 404}}

InitGithub ==
    /\ pc = "profile"
    /\ fn = "get_github_profile"
    /\ arg = GithubUser
    /\ ret = None
    /\ locals = GithubFrame
    /\ clock = 0 /\ files = <<>> /\ history = <<>>

\* lines 44-50
GithubFetchProfile ==
    /\ pc = "profile" /\ fn = "get_github_profile"
    /\ \E answer \in ProfileAnswers :
          LET error == IF answer.ok THEN StatusError(answer.value.status, TRUE)
                       ELSE Some(answer.error) IN
          /\ history' = Append(history, [request |-> "user", page |-> 0, answer |-> answer])
          /\ IF IsSome(error)
             THEN /\ ret' = Some(Failed(GithubWrapped(error[1])))
                  /\ pc' = "raised"
                  /\ locals' = locals
             ELSE /\ ret' = ret
                  /\ pc' = "repos"
                  /\ locals' = [locals EXCEPT !.profile_data = Some(answer.value.body)]
    /\ UNCHANGED <<fn, arg, clock, files>>

\* lines 56-67: the request of one listing page
GithubListPage ==
    /\ pc = "repos" /\ fn = "get_github_profile"
    /\ \E answer \in {ConnectionError}
                     \cup {Ok([status |-> s, listing |-> <<>>]) : s \in {403, 500}}
                     \cup {Ok([status |-> 200, listing |-> Listing(locals.page, n)]) :
                             n \in 0..(IF locals.page < MaxPages THEN PerPage ELSE PerPage - 1)} :
          LET error == IF answer.ok THEN StatusError(answer.value.status, FALSE)
                       ELSE Some(answer.error) IN
          /\ history' = Append(history, [request |-> "repos", page |-> locals.page, answer |-> answer])
          /\ IF IsSome(error)
             THEN /\ ret' = Some(Failed(GithubWrapped(error[1])))
                  /\ pc' = "raised"
                  /\ locals' = locals
             ELSE /\ ret' = ret
                  /\ pc' = IF Len(answer.value.listing) = 0 THEN "events" ELSE "detail"
                  /\ locals' = [locals EXCEPT !.page_repos = answer.value.listing, !.i = 1]
    /\ UNCHANGED <<fn, arg, clock, files>>

\* lines 69-113: one iteration of `for repo in page_repos`, and after the
\* last one the test that ends the pagination
GithubRepoDetail ==
    /\ pc = "detail" /\ fn = "get_github_profile"
    /\ \E detail \in DetailAnswers :
          /\ history' = Append(history, [request |-> "repo", page |-> locals.page, answer |-> detail])
          /\ locals' =
                [locals EXCEPT !.repos = VisitRepo(@, locals.page_repos[locals.i], detail),
                               !.i = @ + 1,
                               !.page = IF locals.i = Len(locals.page_repos)
                                           /\ Len(locals.page_repos) >= PerPage
                                        THEN @ + 1 ELSE @]
    /\ pc' = IF locals.i < Len(locals.page_repos) THEN "detail"
             ELSE IF Len(locals.page_repos) < PerPage THEN "events" ELSE "repos"
    /\ UNCHANGED <<fn, arg, ret, clock, files>>

\* lines 116-145
GithubEvents ==
    /\ pc = "events" /\ fn = "get_github_profile"
    /\ \E answer \in EventAnswers :
          /\ history' = Append(history, [request |-> "events", page |-> 0, answer |-> answer])
          /\ locals' = [locals EXCEPT !.contributions = EventsBlock(@, answer)]
    /\ pc' = "compile"
    /\ UNCHANGED <<fn, arg, ret, clock, files>>

\* lines 148-169, and 174-176 when the dict cannot be built
GithubCompile ==
    /\ pc = "compile" /\ fn = "get_github_profile"
    /\ ret' = Some(CompileProfile(locals))
    /\ pc' = IF CompileProfile(locals).ok THEN "returned" ELSE "raised"
    /\ UNCHANGED <<fn, arg, locals, clock, files, history>>

\* main.py lines 90-105
GithubRespond ==
    /\ pc \in {"returned", "raised"} /\ fn = "get_github_profile"
    /\ ret' = Some([status |-> GithubStatus(ret[1]), outcome |-> ret[1]])
    /\ pc' = "responded"
    /\ UNCHANGED <<fn, arg, locals, clock, files, history>>

NextGithub ==
    \/ GithubFetchProfile \/ GithubListPage \/ GithubRepoDetail
    \/ GithubEvents \/ GithubCompile \/ GithubRespond
SpecGithub == InitGithub /\ [][NextGithub]_vars

----------------------------------------------------------------------------
(* Runs of InstagramScraper.scrape_profile: the driver may be missing, each *)
(* driver call may raise, and each extraction answers one of a few dicts.   *)
(* locals counts the extractions made (tries) and the refreshes.            *)

DriverErrors == {<<"s","e","s","s","i","o","n"," ","d","e","l","e","t","e","d">>}
Extractions ==
    [bio : {None, Some(<<>>), Some(<<"h","i"," ","t","h","e","r","e">>)},
     followers : {None, Some(0), Some(12)},
     posts_count : {None, Some(0)},
     username : {<<"z","e","d">>}, timestamp : {0}]

InitScrape ==
    /\ pc = "driver"
    /\ fn = "scrape_profile"
    /\ arg = <<"z","e","d">>
    /\ ret = None
    /\ locals \in [driver : BOOLEAN, attempts : {0}, tries : {0}, refreshes : {0},
                   profile_data : {None}]
    /\ clock = 0 /\ files = <<>> /\ history = <<>>

\* lines 294-302
ScrapeDriver ==
    /\ pc = "driver" /\ fn = "scrape_profile"
    /\ \/ /\ locals.driver
          /\ pc' = "get" /\ locals' = locals /\ ret' = ret
       \/ /\ ~locals.driver
          /\ pc' = "get" /\ locals' = [locals EXCEPT !.driver = TRUE] /\ ret' = ret
       \/ /\ ~locals.driver
          /\ \E e \in DriverErrors :
                ret' = Some(ScrapeError(<<"F","a","i","l","e","d"," ","t","o"," ","i","n","i","t","i","a","l","i","z","e"," ","I","n","s","t","a","g","r","a","m"," ","s","c","r","a","p","e","r",":"," ">> \o e, clock))
          /\ pc' = "done" /\ locals' = locals
    /\ UNCHANGED <<fn, arg, clock, files, history>>

\* lines 305-336: the page is loaded and tested for the not-found texts
ScrapeGet ==
    /\ pc = "get" /\ fn = "scrape_profile"
    /\ \/ \E e \in DriverErrors :
             /\ ret' = Some(ScrapeFailure(e, clock)) /\ pc' = "done"
       \/ /\ ret' = Some(ScrapeError(<<"P","r","o","f","i","l","e"," ","n","o","t"," ","f","o","u","n","d">>, clock))
          /\ pc' = "done"
       \/ /\ ret' = ret /\ pc' = "attempt"
    /\ UNCHANGED <<fn, arg, locals, clock, files, history>>

\* lines 338-359: one iteration of `while attempts < max_attempts`; the
\* reading of the page source and the refresh may raise
ScrapeAttempt ==
    /\ pc = "attempt" /\ fn = "scrape_profile"
    /\ locals.attempts < max_attempts
    /\ \/ \E e \in DriverErrors :
             /\ ret' = Some(ScrapeFailure(e, clock)) /\ pc' = "done"
             /\ locals' = locals
       \/ \E source, elements \in Extractions, refresh \in {Ok(TRUE)} \cup {Failed(e) : e \in DriverErrors} :
             LET merged == MergeExtractions(source, elements)
                 tried == [locals EXCEPT !.profile_data = Some(merged), !.tries = @ + 1]
             IN
             IF AnyData(merged)
             THEN /\ locals' = tried
                  /\ pc' = "answer" /\ ret' = ret
             ELSE IF locals.attempts + 1 < max_attempts
             THEN /\ locals' = [tried EXCEPT !.attempts = @ + 1, !.refreshes = @ + 1]
                  /\ IF refresh.ok THEN pc' = "attempt" /\ ret' = ret
                     ELSE pc' = "done" /\ ret' = Some(ScrapeFailure(refresh.error, clock))
             ELSE /\ locals' = [tried EXCEPT !.attempts = @ + 1]
                  /\ pc' = "answer" /\ ret' = ret
    /\ UNCHANGED <<fn, arg, clock, files, history>>

\* lines 362-378
ScrapeReturn ==
    /\ pc = "answer" /\ fn = "scrape_profile"
    /\ \/ \E e \in DriverErrors : ret' = Some(ScrapeFailure(e, clock))
       \/ \E private \in BOOLEAN : ret' = Some(ScrapeAnswer(locals.profile_data[1], private, clock))
    /\ pc' = "done"
    /\ UNCHANGED <<fn, arg, locals, clock, files, history>>

NextScrape == ScrapeDriver \/ ScrapeGet \/ ScrapeAttempt \/ ScrapeReturn
SpecScrape == InitScrape /\ [][NextScrape]_vars

----------------------------------------------------------------------------
(* Requests to the three endpoints GET /github/{username},                  *)
(* GET /instagram/{username} and POST /resume/upload.  The GitHub handler    *)
(* runs over fetch_github_profile request by request; the other two draw     *)
(* their collaborators' answers when the handler runs, and their response   *)
(* keeps what the try body ended with (tried) next to the status sent.       *)

ScrapeOutcomes ==
    {ScrapeError(<<"P","r","o","f","i","l","e"," ","n","o","t"," ","f","o","u","n","d">>, 0)}
    \cup {ScrapeFailure(e, 0) : e \in DriverErrors}
    \cup {ScrapeAnswer(p, private, 0) : p \in Extractions, private \in BOOLEAN}

InitInstagramEndpoint ==
    /\ pc = "call"
    /\ fn = "get_instagram_profile"
    /\ arg = <<"z","e","d">>
    /\ ret = None
    /\ locals \in [instagram_scraper : BOOLEAN]
    /\ clock = 0 /\ files = <<>> /\ history = <<>>

InitUpload ==
    /\ pc = "call"
    /\ fn = "upload_resume"
    /\ arg \in CollectUploads
    /\ ret = None
    /\ locals = [instagram_scraper |-> FALSE]
    /\ clock = 0 /\ files = <<>> /\ history = <<>>

InitEndpoints == InitGithub \/ InitInstagramEndpoint \/ InitUpload

\* main.py lines 107-142
InstagramEndpoint ==
    /\ pc = "call" /\ fn = "get_instagram_profile"
    /\ \E built \in CollectBuilds, profile_data \in ScrapeOutcomes :
          LET outcome == get_instagram_profile(locals.instagram_scraper, built, profile_data, clock)
              called == locals.instagram_scraper \/ built.ok
          IN
          /\ ret' = Some([status |-> ResponseStatus(outcome), outcome |-> outcome,
                          tried |-> IF called THEN InstagramTry(profile_data, clock) ELSE outcome])
          /\ history' = IF called
                        THEN <<[request |-> "scrape_profile", page |-> 0, answer |-> profile_data]>>
                        ELSE history
          /\ locals' = [locals EXCEPT !.instagram_scraper = called]
    /\ pc' = "responded"
    /\ UNCHANGED <<fn, arg, clock, files>>

\* main.py lines 144-177
UploadEndpoint ==
    /\ pc = "call" /\ fn = "upload_resume"
    /\ \E parsed \in {parse_resume(arg, clock)}, opened, removed \in BOOLEAN :
          LET outcome == upload_resume(arg, parsed, opened, removed, clock) IN
          /\ ret' = Some([status |-> ResponseStatus(outcome), outcome |-> outcome,
                          tried |-> UploadTry(arg, parsed, opened, removed, clock)])
          /\ history' = IF SupportedName(arg.filename) /\ opened
                        THEN <<[request |-> "parse_resume", page |-> 0, answer |-> parsed]>>
                        ELSE history
    /\ pc' = "responded"
    /\ UNCHANGED <<fn, arg, locals, clock, files>>

NextEndpoints == NextGithub \/ InstagramEndpoint \/ UploadEndpoint
SpecEndpoints == InitEndpoints /\ [][NextEndpoints]_vars


----------------------------------------------------------------------------
(* Text properties used by the claims *)

AllWS(s) == \A i \in 1..Len(s) : IsWS(s[i])
\* no leading or trailing whitespace and no run of two whitespace characters
IsNormalized(s) ==
    /\ Len(s) > 0 => ~IsWS(s[1]) /\ ~IsWS(s[Len(s)])
    /\ \A i \in 1..(Len(s) - 1) : ~(IsWS(s[i]) /\ IsWS(s[i + 1]))

(* C7: the portfolio clean_text returns none for the empty string and for   *)
(* every whitespace-only string; for every other string it returns the     *)
(* text with each whitespace run collapsed to one space and both ends      *)
(* trimmed; normalizing its result again changes nothing.                  *)
C7_CleanTextNoneOrNormalized ==
    (pc = "done" /\ fn = "clean_text" /\ IsSome(arg)) =>
        /\ AllWS(arg[1]) => IsNone(ret)
        /\ ~AllWS(arg[1]) => ret = Some(Strip(CollapseWS(arg[1])))
        /\ clean_text(ret) = ret

(* C9: the sequence returned by extract_list_from_tags holds no two equal  *)
(* entries, and its entries are the items met while visiting the matched   *)
(* elements, in the order in which each was first met.                     *)
RECURSIVE ItemsMet(_, _)
ItemsMet(elements, separator) ==
    IF Len(elements) = 0 THEN <<>>
    ELSE ListVisit(<<>>, elements[1], separator) \o ItemsMet(Tail(elements), separator)
FirstIndex(x, seq) == CHOOSE i \in 1..Len(seq) : seq[i] = x /\ \A j \in 1..(i - 1) : seq[j] # x
ListDone == pc = "done" /\ fn = "extract_list_from_tags"
C9_ListUniqueFirstSeenOrder ==
    ListDone =>
        LET met == ItemsMet(arg.selected[1] \o arg.selected[2], arg.separator) IN
        /\ \A i, j \in 1..Len(ret) : i # j => ret[i] # ret[j]
        /\ {ret[i] : i \in 1..Len(ret)} = {met[k] : k \in 1..Len(met)}
        /\ \A i, j \in 1..Len(ret) : i < j => FirstIndex(ret[i], met) < FirstIndex(ret[j], met)
\* an element matched by both selectors, and an item met whole and as a split part
C9_Witness ==
    /\ ListDone
    /\ \E e \in ListElements : InSeq(e, arg.selected[1]) /\ InSeq(e, arg.selected[2])
    /\ \E i, j \in 1..Len(arg.selected[1]) :
          /\ Contains(arg.selected[1][i].text, arg.separator)
          /\ ~Contains(arg.selected[1][j].text, arg.separator)
          /\ InSeq(arg.selected[1][j].text, ListVisit(<<>>, arg.selected[1][i], arg.separator))
    /\ Len(ret) = 2
(* C8: in every record returned by parse_portfolio, each scalar field      *)
(* (name, about, the fields of every experience, project and education     *)
(* entry, every contact value) is a non-empty string or none, never the    *)
(* empty string.                                                           *)
NotEmptyString(o) == IsSome(o) => Len(o[1]) > 0
PortfolioDone == pc = "done" /\ fn = "parse_portfolio"
C8_NameNotEmpty == PortfolioDone => NotEmptyString(ret.name)
C8_AboutNotEmpty == PortfolioDone => NotEmptyString(ret.about)
C8_ContactNotEmpty == PortfolioDone => \A q \in DOMAIN ret.contact : NotEmptyString(ret.contact[q])
C8_EntriesNotEmpty ==
    PortfolioDone =>
        /\ \A i \in 1..Len(ret.experience) :
              /\ NotEmptyString(ret.experience[i].title)
              /\ NotEmptyString(ret.experience[i].company)
              /\ NotEmptyString(ret.experience[i].date)
              /\ \A k \in 1..Len(ret.experience[i].responsibilities) :
                    Len(ret.experience[i].responsibilities[k]) > 0
        /\ \A i \in 1..Len(ret.projects) :
              /\ NotEmptyString(ret.projects[i].title)
              /\ NotEmptyString(ret.projects[i].description)
              /\ NotEmptyString(ret.projects[i].link)
        /\ \A i \in 1..Len(ret.education) :
              /\ NotEmptyString(ret.education[i].years)
              /\ NotEmptyString(ret.education[i].institution)
              /\ NotEmptyString(ret.education[i].degree)
C8_PortfolioScalarsNotEmpty ==
    C8_NameNotEmpty /\ C8_AboutNotEmpty /\ C8_ContactNotEmpty /\ C8_EntriesNotEmpty

(* C3: whatever the number of lines and of header lines of the text, each *)
(* of extract_education, extract_experience, extract_certifications and    *)
(* extract_projects returns at most 5 entries.                             *)
ScanDone == pc = "done" /\ fn \in ScanKinds
C3_SectionCap == ScanDone => Len(ret) <= 5
\* a text with more than five entries before the cap
C3_Witness == ScanDone /\ Len(Flushed(locals.st)) > 5 /\ Len(ret) = 5

(* C10: parse_resume on content shorter than 100 bytes or longer than 10 MB *)
(* fails, and for such content no decode step is ever started; content of   *)
(* exactly 100 bytes and of exactly 10 MB passes the size guard.            *)
ResumeOutOfSize == arg.size < 100 \/ arg.size > 10 * 1024 * 1024
C10_SizeGuard ==
    fn = "parse_resume" =>
        /\ ResumeOutOfSize =>
              /\ ~InSeq("decode", locals.trace)
              /\ pc \notin {"kind", "decode", "length", "extract", "validate", "normalize", "done"}
              /\ \A i \in 1..Len(history) : ~history[i].ok
        /\ (arg.size \in {100, 10 * 1024 * 1024} /\ locals.trace = <<"size">>) => pc = "kind"
C10_Witness ==
    /\ fn = "parse_resume" /\ arg.size = 10 * 1024 * 1024 + 1
    /\ pc = "failed" /\ locals.trace = <<"size">>

(* C2: in every record returned by parse_resume no field holds an empty     *)
(* string or an empty list, at the top level and inside each education,     *)
(* experience and project entry.                                            *)
ResumeReturned == fn = "parse_resume" /\ pc = "done"
NoEmptyTop(r) == \A k \in ListKeys \cup StrKeys : IsSome(r[k]) => Len(r[k][1]) > 0
NoEmptyNested(r) ==
    \A k \in {"education", "experience", "projects"} :
        IsSome(r[k]) => \A i \in 1..Len(r[k][1]) : \A f \in DOMAIN r[k][1][i] : Len(r[k][1][i][f]) > 0
C2_NoEmptyValues ==
    ResumeReturned => NoEmptyTop(ret[1].value) /\ NoEmptyNested(ret[1].value)

(* C6: every text of a record returned by parse_resume (identity fields,    *)
(* skills, the fields of every education, experience, certification and     *)
(* project entry) has no leading or trailing whitespace and no run of two   *)
(* or more whitespace characters.                                           *)
EntryNormalized(e) ==
    \A f \in DOMAIN e :
        IF f \in {"description", "technologies"}
        THEN \A j \in 1..Len(e[f]) : IsNormalized(e[f][j])
        ELSE IsNormalized(e[f])
C6_ResumeTextsNormalized ==
    ResumeReturned =>
        LET r == ret[1].value IN
        /\ \A k \in StrKeys \ {"text"} : IsSome(r[k]) => IsNormalized(r[k][1])
        /\ IsSome(r.skills) => \A i \in 1..Len(r.skills[1]) : IsNormalized(r.skills[1][i])
        /\ \A k \in ListKeys \ {"skills"} :
              IsSome(r[k]) => \A i \in 1..Len(r[k][1]) : EntryNormalized(r[k][1][i])

SameButTimestamp(x, y) ==
    /\ x.ok = y.ok
    /\ ~x.ok => x.error = y.error
    /\ x.ok =>
          /\ \A k \in ListKeys \cup StrKeys : x.value[k] = y.value[k]
          /\ x.value.metadata.raw_text_length = y.value.metadata.raw_text_length
XrefDone == fn = "cross_reference_data" /\ pc = "done"
C1_XrefNeverRaises == XrefDone => ret.ok

(* C4: in the report, skills_match holds exactly one entry per skill of the *)
(* union of portfolio skills, resume skills and GitHub languages; the       *)
(* entry's sources are exactly the sources whose skill set contains the     *)
(* skill, at least one, and its confidence is (number of sources)/3.        *)
SourceSkills(cd, source) ==
    CASE source = "portfolio" -> IF IsSome(cd.portfolio) THEN Elements(cd.portfolio[1].skills) ELSE {}
      [] source = "resume" ->
           IF IsSome(cd.resume) /\ IsSome(cd.resume[1].skills)
           THEN Elements(cd.resume[1].skills[1]) ELSE {}
      [] source = "github" ->
           IF IsSome(cd.github)
           THEN {r.language[1] : r \in {x \in Elements(cd.github[1].repositories) : Truthy(x.language)}}
           ELSE {}
C4_SkillsMatch ==
    (XrefDone /\ ret.ok) =>
        LET sm == ret.value.skills_match
            names == {"portfolio", "github", "resume"}
        IN  /\ Elements([i \in 1..Len(sm) |-> sm[i].skill]) = UNION {SourceSkills(arg, n) : n \in names}
            /\ \A i, j \in 1..Len(sm) : sm[i].skill = sm[j].skill => i = j
            /\ \A i \in 1..Len(sm) :
                  /\ Elements(sm[i].sources) = {n \in names : sm[i].skill \in SourceSkills(arg, n)}
                  /\ Len(sm[i].sources) = Cardinality(Elements(sm[i].sources))
                  /\ Len(sm[i].sources) \in 1..3
                  /\ sm[i].confidence = <<Len(sm[i].sources), 3>>
C4_Witness ==
    /\ XrefDone /\ ret.ok
    /\ \E i, j, k \in 1..Len(ret.value.skills_match) :
          /\ Len(ret.value.skills_match[i].sources) = 1
          /\ Len(ret.value.skills_match[j].sources) = 2
          /\ Len(ret.value.skills_match[k].sources) = 3

(* C6, portfolio part: the name of a record returned by parse_portfolio has *)
(* no leading or trailing whitespace and no run of whitespace characters.   *)
C6_PortfolioNameNormalized ==
    (PortfolioDone /\ IsSome(ret.name)) => IsNormalized(ret.name[1])

(* C11: once the decoded text has passed the length check, parse_resume     *)
(* fails exactly when email, phone, GitHub URL, portfolio URL, Instagram    *)
(* handle, skills, education and experience are all empty in the extracted  *)
(* record; with any one of them non-empty it returns a record.              *)
IdentityKeys == {"email", "phone", "github_url", "portfolio_url", "instagram_username"}
AllFieldsEmpty(d) ==
    /\ \A k \in IdentityKeys : ~Truthy(d[k])
    /\ \A k \in {"skills", "education", "experience"} : ~Truthy(d[k])
C11_RejectedIffAllEmpty ==
    (fn = "parse_resume" /\ pc \in {"done", "failed"} /\ InSeq("validate", locals.trace)) =>
        (ret[1].ok <=> ~AllFieldsEmpty(locals.data[1]))

(* C13: within one call parse_resume takes its steps in order, each at most *)
(* once; a call that fails at any step hands back a ResumeParserError and   *)
(* no record, and a call that returns hands back the whole record.          *)
ResumeSteps == <<"size", "kind", "decode", "length", "extract", "validate", "normalize">>
ResumeKeys == ListKeys \cup StrKeys \cup {"metadata"}
IsPrefix(p, q) == Len(p) <= Len(q) /\ \A i \in 1..Len(p) : p[i] = q[i]
WholeOutcome(o) ==
    IF o.ok THEN DOMAIN o = {"ok", "value"} /\ DOMAIN o.value = ResumeKeys
    ELSE DOMAIN o = {"ok", "type", "error"} /\ o.type = "ResumeParserError"
C13_StepsOnceFailuresTerminal ==
    fn = "parse_resume" =>
        /\ IsPrefix(locals.trace, ResumeSteps)
        /\ (pc \in {"done", "failed"}) => WholeOutcome(ret[1])
        /\ (pc = "done") => locals.trace = ResumeSteps
        /\ (pc = "failed") => ~ret[1].ok
        /\ \A i \in 1..Len(history) : WholeOutcome(history[i])
C13_Witness ==
    /\ fn = "parse_resume" /\ Len(history) = 2
    /\ ~history[1].ok /\ ~history[2].ok
    /\ locals.trace = <<"size", "kind", "decode">>

(* C12: in a response of collect_candidate_data, the branch of every        *)
(* requested source has run, in the order portfolio, GitHub, Instagram,     *)
(* resume, whatever the earlier branches met, and every requested source    *)
(* is a key of exactly one of data and errors.                              *)
Requested(a) ==
    SelectSeq(SourceNames,
              LAMBDA s : CASE s = "portfolio" -> Truthy(a.portfolio_url)
                           [] s = "github" -> Truthy(a.github_username)
                           [] s = "instagram" -> Truthy(a.instagram_username)
                           [] s = "resume" -> IsSome(a.resume_file))
CollectDone == fn = "collect_candidate_data" /\ pc = "done"
C12_LaterSourcesProcessed == CollectDone => locals.visited = Requested(arg)
C12_EachSourceInOneMap ==
    CollectDone =>
        /\ locals.visited = Requested(arg)
        /\ \A s \in Elements(Requested(arg)) :
              IsSome(ret[1].value.data[s]) # IsSome(ret[1].value.errors[s])

(* C14: in the report, experience_verification, education_verification and  *)
(* project_verification hold one entry per portfolio entry, in the          *)
(* portfolio's order, and the entry's flag is true exactly when some resume *)
(* experience title, resume education institution or GitHub repository name *)
(* occurs, letter case apart and otherwise character for character, inside  *)
(* the portfolio entry's title or institution; "Task Manager App" against   *)
(* the repository "task-manager" is not verified.                           *)
CiSubstring(p, s) ==
    \E k \in 0..(Len(s) - Len(p)) : \A j \in 1..Len(p) : LowerChar(p[j]) = LowerChar(s[k + j])
ResumeList(cd, key) ==
    LET o == SourceGet(cd.resume, key, Some(<<>>)) IN IF IsNone(o) THEN <<>> ELSE o[1]
FlagsMatch(entries, key, verification, flag, others, okey) ==
    /\ Len(verification) = Len(entries)
    /\ \A i \in 1..Len(entries) :
          /\ verification[i][key] = entries[i][key]
          /\ verification[i][flag] <=>
                \E j \in 1..Len(others) :
                    IsSome(entries[i][key]) /\ CiSubstring(others[j][okey], entries[i][key][1])
TaskManagerApp == <<"T","a","s","k"," ","M","a","n","a","g","e","r"," ","A","p","p">>
TaskManagerRepo == <<"t","a","s","k","-","m","a","n","a","g","e","r">>
C14_VerificationFlags ==
    (XrefDone /\ ret.ok) =>
        /\ FlagsMatch(SourceGet(arg.portfolio, "experience", <<>>), "title",
                      ret.value.experience_verification, "verified_in_resume",
                      ResumeList(arg, "experience"), "title")
        /\ FlagsMatch(SourceGet(arg.portfolio, "education", <<>>), "institution",
                      ret.value.education_verification, "verified_in_resume",
                      ResumeList(arg, "education"), "institution")
        /\ FlagsMatch(SourceGet(arg.portfolio, "projects", <<>>), "title",
                      ret.value.project_verification, "verified_in_github",
                      SourceGet(arg.github, "repositories", <<>>), "name")
        /\ \A i \in 1..Len(ret.value.project_verification) :
              (/\ ret.value.project_verification[i].title = Some(TaskManagerApp)
               /\ \A r \in Elements(SourceGet(arg.github, "repositories", <<>>)) :
                     r.name = TaskManagerRepo)
              => ~ret.value.project_verification[i].verified_in_github
C14_Witness ==
    /\ XrefDone /\ ret.ok
    /\ IsSome(arg.github) /\ Len(arg.github[1].repositories) = 1
    /\ arg.github[1].repositories[1].name = TaskManagerRepo
    /\ Len(ret.value.project_verification) = 1
    /\ ret.value.project_verification[1].title = Some(TaskManagerApp)
    /\ ~ret.value.project_verification[1].verified_in_github
    /\ Len(ret.value.experience_verification) = 1
    /\ ret.value.experience_verification[1].verified_in_resume
    /\ ret.value.education_verification[1].verified_in_resume

(* C15: in contact_consistency, email.consistent is true only when the      *)
(* portfolio and the resume both declare an email and the two are equal,    *)
(* and website.consistent only when the portfolio website and the GitHub    *)
(* blog are both declared and equal; with a value absent on either side     *)
(* the flag is false.                                                       *)
BothDeclaredAndEqual(pair, other) ==
    IsSome(pair.portfolio) /\ IsSome(pair[other]) /\ pair.portfolio[1] = pair[other][1]
C15_ConsistentOnlyWhenBothDeclared ==
    (XrefDone /\ ret.ok) =>
        /\ ret.value.contact_consistency.email.consistent
              => BothDeclaredAndEqual(ret.value.contact_consistency.email, "resume")
        /\ ret.value.contact_consistency.website.consistent
              => BothDeclaredAndEqual(ret.value.contact_consistency.website, "github")
(* C15, the part that holds: a flag is true exactly when the two compared   *)
(* values are equal, an absent value being equal to an absent value only.   *)
C15_ConsistentIffEqual ==
    (XrefDone /\ ret.ok) =>
        /\ ret.value.contact_consistency.email.consistent
              <=> (ret.value.contact_consistency.email.portfolio = ret.value.contact_consistency.email.resume)
        /\ ret.value.contact_consistency.website.consistent
              <=> (ret.value.contact_consistency.website.portfolio = ret.value.contact_consistency.website.github)

(* C16: extract_skills returns vocabulary tokens in strictly ascending      *)
(* order, and every returned token occurs in the text, letter case apart,   *)
(* as a whole word: with no word character next to it on either side.       *)
SkillsDone == fn = "extract_skills" /\ pc = "done"
WholeWordIn(w, s) ==
    \E k \in 0..(Len(s) - Len(w)) :
        /\ \A j \in 1..Len(w) : LowerChar(w[j]) = LowerChar(s[k + j])
        /\ (k > 0 => ~IsWordChar(s[k]))
        /\ (k + Len(w) < Len(s) => ~IsWordChar(s[k + Len(w) + 1]))
C16_SortedUniqueVocabulary ==
    SkillsDone =>
        /\ \A i \in 1..Len(ret) : ret[i] \in Elements(common_skills)
        /\ \A i \in 1..(Len(ret) - 1) : StrLess(ret[i], ret[i + 1])
C16_SkillsAreWholeWords ==
    SkillsDone =>
        /\ \A i \in 1..Len(ret) : ret[i] \in Elements(common_skills)
        /\ \A i \in 1..(Len(ret) - 1) : StrLess(ret[i], ret[i + 1])
        /\ \A i \in 1..Len(ret) : WholeWordIn(ret[i], arg)

(* C17: extract_phone returns none or a string made of digits, with at most *)
(* one "+" and that one in front, and the string holds at least 10 digits,  *)
(* the "+" not counted.                                                     *)
PhoneDone == fn = "extract_phone" /\ pc = "done"
IsDigitChar(c) == c \in Digits
PlusThenDigits(p) == \A i \in 1..Len(p) : p[i] \in Digits \/ (i = 1 /\ p[i] = "+")
C17_PhoneShape ==
    (PhoneDone /\ IsSome(ret)) => PlusThenDigits(ret[1]) /\ Len(ret[1]) >= 10
C17_PhoneTenDigits ==
    (PhoneDone /\ IsSome(ret)) =>
        PlusThenDigits(ret[1]) /\ Len(SelectSeq(ret[1], IsDigitChar)) >= 10

(* C18: the URL extract_portfolio_url returns is never a github.com or      *)
(* instagram.com URL, and it stands in the text as returned, or, when       *)
(* https:// was put in front of a www. URL, without that prefix.            *)
UrlDone == fn = "extract_portfolio_url" /\ pc = "done"
Https == <<"h","t","t","p","s",":","/","/">>
C18_NeverGithubOrInstagram ==
    (UrlDone /\ IsSome(ret)) =>
        ~ContainsAny(Lower(ret[1]), {<<"g","i","t","h","u","b",".","c","o","m">>,
                                     <<"i","n","s","t","a","g","r","a","m",".","c","o","m">>})
C18_AsWritten ==
    (UrlDone /\ IsSome(ret)) =>
        \/ Contains(arg, ret[1])
        \/ /\ StartsWith(ret[1], Https \o <<"w","w","w",".">>)
           /\ Contains(arg, SubSeq(ret[1], Len(Https) + 1, Len(ret[1])))
C18_PortfolioUrlPolicy == C18_NeverGithubOrInstagram /\ C18_AsWritten
(* C18, second stage alone: in a text without a label the first URL of the  *)
(* text that names no GitHub or Instagram host and matches the personal-    *)
(* site list is returned as written, and none when there is no such URL.    *)
C18_UnlabelledStage ==
    (UrlDone /\ ~Contains(Lower(arg), <<"p","o","r","t","f","o","l","i","o",":">>)) =>
        LET kept == SelectSeq(UrlMatches(arg, 1), IsPortfolioCandidate) IN
        /\ Len(kept) = 0 => IsNone(ret)
        /\ Len(kept) > 0 => ret = Some(WithScheme(kept[1])) /\ Contains(arg, kept[1])

(* C19: in the education, experience and project scans, a header line       *)
(* appends the open entry, if any, to the list and opens a new entry seeded *)
(* with the line; any other line leaves the list and the open entry's       *)
(* header field as they are; at the end of the text the open entry is       *)
(* appended and the first five entries are returned.  So the entries are    *)
(* the ones the header lines opened, each once, in line order.              *)
EntryScans == {"extract_education", "extract_experience", "extract_projects"}
WithOpenEntry(st) == IF IsSome(st.current) THEN Append(st.entries, st.current[1]) ELSE st.entries
HeaderStep(kind, raw, st, next) ==
    IF IsHeaderLine(kind, raw)
    THEN /\ next.entries = WithOpenEntry(st)
         /\ IsSome(next.current)
         /\ next.current[1][HeaderKey(kind)] = resume_clean_text(raw)
    ELSE /\ next.entries = st.entries
         /\ IsSome(next.current) = IsSome(st.current)
         /\ IsSome(st.current) =>
               next.current[1][HeaderKey(kind)] = st.current[1][HeaderKey(kind)]
C19_ScanStep ==
    (fn \in EntryScans /\ pc = "scan") =>
        /\ pc' = "scan" => HeaderStep(fn, locals'.line, locals.st, locals'.st)
        /\ pc' = "done" => ret' = Truncate(WithOpenEntry(locals.st), 5)
C19_EntriesAreOpenedEntries == [][C19_ScanStep]_vars
C19_Witness ==
    /\ fn = "extract_experience" /\ pc = "done"
    /\ Len(ret) = 3
    /\ Len(ret[1].company) > 0 /\ Len(ret[2].description) > 0 /\ Len(ret[3].company) = 0

(* C20: in the education and experience scans, a line that does not open a  *)
(* new entry leaves every slot of the open entry (institution and year;     *)
(* company and duration) that already holds a text as it is.                *)
SlotKeys(kind) ==
    IF kind = "extract_education" THEN {"institution", "year"} ELSE {"company", "duration"}
KeepsFilled(kind, raw, st, next, keys) ==
    (IsSome(st.current) /\ ~IsHeaderLine(kind, raw)) =>
        \A k \in keys : Len(st.current[1][k]) > 0 => next.current[1][k] = st.current[1][k]
C20_SlotStep ==
    (fn \in {"extract_education", "extract_experience"} /\ pc = "scan" /\ pc' = "scan") =>
        KeepsFilled(fn, locals'.line, locals.st, locals'.st, SlotKeys(fn))
C20_SlotsAssignedOnce == [][C20_SlotStep]_vars
(* C20, the slot for which it holds: the company of an open experience      *)
(* entry, once filled, is not changed by any later line of the entry.       *)
C20_CompanyStep ==
    (fn = "extract_experience" /\ pc = "scan" /\ pc' = "scan") =>
        KeepsFilled(fn, locals'.line, locals.st, locals'.st, {"company"})
C20_CompanyAssignedOnce == [][C20_CompanyStep]_vars

(* C21: in the experience scan, a line that starts with a bullet marker,    *)
(* is not a header line and is read while an entry is open is appended,     *)
(* marker removed, to the description of the open entry, and the entry's    *)
(* company and duration stay as they were.                                  *)
IsBulletLine(raw) == StartsWithBullet(Strip(raw))
BulletAppended(st, next, raw) ==
    /\ next.entries = st.entries
    /\ IsSome(next.current)
    /\ next.current[1].description =
          Append(st.current[1].description, LStripSet(Strip(raw), BulletMarkers \cup {" "}))
    /\ next.current[1].company = st.current[1].company
    /\ next.current[1].duration = st.current[1].duration
C21_BulletStep ==
    (/\ fn = "extract_experience" /\ pc = "scan" /\ pc' = "scan"
     /\ IsSome(locals.st.current)
     /\ IsBulletLine(locals'.line) /\ ~IsHeaderLine(fn, locals'.line)) =>
        BulletAppended(locals.st, locals'.st, locals'.line)
C21_BulletsAreDescriptions == [][C21_BulletStep]_vars

(* C22: in the experience scan, a line that contains '@' or a run of ten    *)
(* digits leaves the open entry and the result list exactly as they were,   *)
(* also when it holds a job-title keyword or would fill an empty slot.      *)
IsContactLine(raw) == Contains(raw, <<"@">>) \/ HasDigitRun(raw, 10)
C22_ContactStep ==
    (fn = "extract_experience" /\ pc = "scan" /\ pc' = "scan" /\ IsContactLine(locals'.line)) =>
        locals'.st = locals.st
C22_ContactLinesChangeNothing == [][C22_ContactStep]_vars
C22_Witness ==
    /\ fn = "extract_experience" /\ pc = "scan"
    /\ IsContactLine(locals.line)
    /\ ContainsAny(Lower(locals.line), job_keywords) /\ Len(locals.line) > 10
    /\ IsSome(locals.st.current) /\ Len(locals.st.current[1].company) = 0

(* C23: for every matched element whose text contains the separator, each   *)
(* split item that does not itself contain an exclusion word is returned;   *)
(* an excluded item does not take its siblings of the same element with it. *)
KeptSiblings(elem, separator) ==
    LET text == ListElemText(elem) IN
    IF Truthy(text) /\ Contains(text[1], separator)
    THEN SplitItems(SplitOn(text[1], separator)) ELSE <<>>
C23_SiblingsKept ==
    ListDone =>
        \A e \in Elements(arg.selected[1] \o arg.selected[2]) :
            \A item \in Elements(KeptSiblings(e, arg.separator)) : InSeq(item, ret)

(* C24: when the page holds a mailto: link, contact.email is the target of  *)
(* the first such link with the scheme removed, wherever the paragraphs     *)
(* that contain '@' stand on the page.                                      *)
MailtoLinks(elements) ==
    SelectSeq(elements, LAMBDA e : e.name = "a" /\ IsSome(e.href)
                                     /\ Contains(e.href[1], <<"m","a","i","l","t","o",":">>))
MailtoTarget(elem) == ReplaceAll(elem.href[1], <<"m","a","i","l","t","o",":">>, <<>>)
C24_MailtoWins ==
    (PortfolioDone /\ Len(MailtoLinks(arg.elements)) > 0) =>
        /\ "email" \in DOMAIN ret.contact
        /\ ret.contact.email = Some(MailtoTarget(MailtoLinks(arg.elements)[1]))
(* C24, what holds: the first element, in document order, that is a mailto: *)
(* link or a paragraph containing '@' decides contact.email.                *)
C24_FirstMatchWins ==
    PortfolioDone =>
        LET found == ContactSelect("email", arg.elements) IN
        /\ IsNone(found) => "email" \notin DOMAIN ret.contact
        /\ (IsSome(found) /\ found[1].name = "a") => ret.contact.email = Some(MailtoTarget(found[1]))
        /\ (IsSome(found) /\ found[1].name = "p") => ret.contact.email = clean_text(Some(found[1].text))

(* C25: a portfolio education entry is verified_in_resume only if some      *)
(* resume education entry has a non-empty institution that occurs, letter   *)
(* case apart, inside the portfolio entry's institution.                    *)
NamedInResume(institution, resume_edu) ==
    \E j \in 1..Len(resume_edu) :
        /\ Len(resume_edu[j].institution) > 0
        /\ IsSome(institution) /\ CiSubstring(resume_edu[j].institution, institution[1])
C25_VerifiedOnlyByNamedInstitution ==
    (XrefDone /\ ret.ok) =>
        \A i \in 1..Len(ret.value.education_verification) :
            ret.value.education_verification[i].verified_in_resume
               => NamedInResume(ret.value.education_verification[i].institution,
                                ResumeList(arg, "education"))

(* C26: extract_instagram_username returns the handle of the first @handle  *)
(* mention or instagram.com/handle URL of the text, and none when the text  *)
(* has neither; an '@' that follows the local part of an email address is   *)
(* not a mention.                                                           *)
MentionDone == pc = "done" /\ fn = "extract_instagram_username"
HandleChars == AlphaNum \cup {"_", "."}
InEmailAt(s, i) == i > 1 /\ s[i - 1] \in AlphaNum \cup {"_", ".", "-", "+"}
HandleStart(s, i) ==
    IF s[i] = "@" /\ ~InEmailAt(s, i) THEN i + 1
    ELSE IF IsSubstringAt(<<"i","n","s","t","a","g","r","a","m",".","c","o","m","/">>, Lower(s), i)
    THEN i + 14 ELSE 0
IsMentionAt(s, i) == HandleStart(s, i) > 0 /\ SkipSet(s, HandleStart(s, i), HandleChars) > HandleStart(s, i)
HandleAt(s, i) == SubSeq(s, HandleStart(s, i), SkipSet(s, HandleStart(s, i), HandleChars) - 1)
C26_HandleFromMentionOnly ==
    MentionDone =>
        LET mentions == {i \in 1..Len(arg) : IsMentionAt(arg, i)} IN
        IF mentions = {} THEN ret = None
        ELSE ret = Some(HandleAt(arg, Least(mentions)))

(* C28: when the events request of fetch_github_profile raises or answers   *)
(* with a status other than 200, the function still returns the profile    *)
(* with its repositories, contributions being null.                         *)
FetchEnded == fn = "get_github_profile" /\ pc \in {"returned", "raised"}
EventsFailed(requests) ==
    \E k \in 1..Len(requests) :
        /\ requests[k].request = "events"
        /\ ~requests[k].answer.ok \/ requests[k].answer.value.status # 200
ReturnsWithoutContributions ==
    /\ pc = "returned" /\ ret[1].ok
    /\ ret[1].value.contributions = None
    /\ ret[1].value.repositories = locals.repos
C28_EventsFailureTolerated ==
    (FetchEnded /\ EventsFailed(history)) => ReturnsWithoutContributions
(* C28, what holds: the same when the events request raises.                *)
C28_EventsExceptionTolerated ==
    (FetchEnded /\ \E k \in 1..Len(history) :
                      history[k].request = "events" /\ ~history[k].answer.ok)
        => ReturnsWithoutContributions

(* C29: when fetch_github_profile returns, its repositories list holds      *)
(* exactly one entry for every repository listed on the fetched pages, in   *)
(* listing order, whatever the per-repository detail requests answered.     *)
PageRequests(requests) == SelectSeq(requests, LAMBDA r : r.request = "repos")
RECURSIVE ListedNames(_)
ListedNames(pages) ==
    IF Len(pages) = 0 THEN <<>>
    ELSE [k \in 1..Len(pages[1].answer.value.listing) |-> pages[1].answer.value.listing[k].name]
         \o ListedNames(Tail(pages))
C29_OneEntryPerListedRepository ==
    (fn = "get_github_profile" /\ pc = "returned") =>
        [k \in 1..Len(ret[1].value.repositories) |-> ret[1].value.repositories[k].name]
            = ListedNames(PageRequests(history))
(* C29, what holds: the pages are requested in the order 1, 2, ..., each    *)
(* once; every page before the last requested one was full, and when the    *)
(* function returns the last one was empty or short of a full page.         *)
C29_PaginationOrder ==
    fn = "get_github_profile" =>
        LET pages == PageRequests(history) IN
        /\ \A k \in 1..Len(pages) : pages[k].page = k
        /\ \A k \in 1..(Len(pages) - 1) :
              pages[k].answer.ok /\ Len(pages[k].answer.value.listing) = PerPage
        /\ pc = "returned" =>
              /\ Len(pages) > 0
              /\ Len(pages[Len(pages)].answer.value.listing) < PerPage

(* C30: scrape_profile makes at most 3 extraction attempts and at most 2    *)
(* page refreshes, makes no further attempt after the first one that        *)
(* yields a bio, a followers count or a posts count, and returns either a   *)
(* dict with an "error" key or a profile dict in which one of the three is  *)
(* set.                                                                      *)
Yields(p) == IsSome(p.bio) \/ IsSome(p.followers) \/ IsSome(p.posts_count)
ScrapeBounds ==
    fn = "scrape_profile" =>
        /\ locals.tries <= 3 /\ locals.refreshes <= 2
        /\ (pc = "done") =>
              \/ "error" \in DOMAIN ret[1]
              \/ "error" \notin DOMAIN ret[1] /\ Yields(ret[1])
StopsAtFirstYield ==
    (fn = "scrape_profile" /\ pc = "attempt" /\ IsSome(locals.profile_data)
        /\ Yields(locals.profile_data[1])) => locals'.tries = locals.tries
C30_ScrapeBoundedAndStops == []ScrapeBounds /\ [][StopsAtFirstYield]_vars
(* C30, what holds: the bounds and the shape of the answer, and no further  *)
(* attempt after the first one that yields a non-empty bio or a non-zero    *)
(* followers or posts count.                                                 *)
StopsAtFirstData ==
    (fn = "scrape_profile" /\ pc = "attempt" /\ IsSome(locals.profile_data)
        /\ AnyData(locals.profile_data[1])) => locals'.tries = locals.tries
C30_ScrapeBoundedStopsAtData == []ScrapeBounds /\ [][StopsAtFirstData]_vars

(* C27: the status an endpoint handler chooses for a failure is the status   *)
(* of the response: GET /github/{username} answers 404 when GitHub answers   *)
(* 404 for the user and 429 when GitHub reports the rate limit (403) on the  *)
(* user or on a listing request; GET /instagram/{username} answers 404 when  *)
(* scrape_profile reports "not found"; POST /resume/upload answers 400 for a *)
(* file name that ends neither in .pdf nor in .docx.                         *)
GithubAnswered(request, status) ==
    \E i \in 1..Len(history) :
        /\ history[i].request = request
        /\ history[i].answer.ok /\ history[i].answer.value.status = status
GithubStatusReaches ==
    /\ GithubAnswered("user", 404) => ret[1].status = 404
    /\ (GithubAnswered("user", 403) \/ GithubAnswered("repos", 403)) => ret[1].status = 429
ChosenStatusReaches ==
    (~ret[1].tried.ok /\ ret[1].tried.error.type = "HTTPException")
        => ret[1].status = ret[1].tried.error.status_code
C27_StatusReachesClient ==
    pc = "responded" =>
        /\ fn = "get_github_profile" => GithubStatusReaches
        /\ fn \in {"get_instagram_profile", "upload_resume"} => ChosenStatusReaches
\* what the handlers do deliver: a response carries 200 exactly when the
\* handler returns and 400 or 500 otherwise; a ResumeParserError raised by
\* parse_resume leaves upload_resume as 400
ParserErrorIs400 ==
    (fn = "upload_resume" /\ ~ret[1].tried.ok /\ ret[1].tried.error.type = "ResumeParserError")
        => ret[1].status = 400
C27_ParserErrorReachesClient ==
    pc = "responded" =>
        /\ ret[1].status \in {200, 400, 500}
        /\ ret[1].status = 200 <=> ret[1].outcome.ok
        /\ ParserErrorIs400

====
